---- MODULE Spec2Model ----
(***************************************************************************)
(* Client-side engine of the prise terminal multiplexer (OpenTUI client):  *)
(* msgpack-RPC client (rpc.ts), connection manager (connection.ts), layout *)
(* model (layout.ts), prefix key matcher (keybinds.ts), Renderer            *)
(* (renderer.ts) and the App that feeds redraw notifications to it.        *)
(*                                                                         *)
(* Time is in milliseconds.  JavaScript timers are modelled as urgent: the *)
(* clock never passes the deadline of an armed timer before its callback   *)
(* has run, and every handler body is one atomic step (single-threaded     *)
(* event loop).                                                            *)
(***************************************************************************)
EXTENDS Integers, Sequences, FiniteSets, TLC

VARIABLES
  now,            \* the event loop's clock (ms)
  rpc,            \* RpcClient fields: msgidCounter, pendingRequests, notificationHandlers, buffer
  timers,         \* armed request timeouts (setTimeout): msgid -> deadline
  promises,       \* per request promise: msgid -> sequence of settle calls made on it
  removed,        \* history: msgid -> number of times its pending entry was deleted
  issuedAt,       \* history: msgid -> time of the request call
  sent,           \* msgids written to the socket
  calls,          \* history: notification handler invocations, in order
  rpcEvent,       \* history: the last step of the RPC client and what it found
  wire,           \* bytes the server has sent that are not yet delivered
  received,       \* history: all bytes delivered to processData so far
  handled,        \* history: values passed to handleMessage, in order
  sentMsgs,       \* history: the messages the server has written, each as its bytes
  dataEvent,      \* history: the last processData call and what it found
  layoutState,    \* LayoutState: tabs (in order) and activeTabId
  paneCounter,    \* _paneCounter
  tabCounter,     \* _tabCounter
  layoutOp,       \* history: the last layout operation and what it started from
  conn,           \* PriseConnection fields: isConnected, reconnectAttempts, rpc, socket, onReconnect
  sockets,        \* transport sockets created by connect(): id -> state and owner
  connTimers,     \* armed reconnect delays (setTimeout in attemptReconnect)
  callerSignals,  \* what the caller of the connection manager has been told
  logs,           \* messages written by log()
  lastAttempt,    \* history: the last connect() call made by the reconnect policy
  window,         \* history: the outage in progress and the attempts made in it
  matcher,        \* PrefixMatcher fields: waitingForCommand, timeoutHandle
  keyTimers,      \* armed prefix timeouts (setTimeout): handle -> deadline
  keyOut,         \* history: the last key event, the Action returned for it, and
                  \* (run) whether it is an odd (1) or even (2) press in a run of
                  \* consecutive prefix presses
  renderersByPtyId, \* the App's map of Renderer instances: ptyId -> Renderer fields
  app,            \* the App: rpc (the socket of the RpcClient it was handed), handlers
                  \* (the methods it has registered on it), mode, spawning (the
                  \* state a pending spawnAndAttachFocused was called with)
  styleSeen,      \* history: style id -> attrs and socket of the last style event handled
  viewEvent,      \* history: the last step of the App or of a Renderer
  treeCall        \* history: the last direct call of a layout tree function

rpcVars == <<rpc, timers, promises, removed, issuedAt, sent, calls, rpcEvent>>
dataVars == <<wire, received, handled, sentMsgs, dataEvent>>
layoutVars == <<layoutState, paneCounter, tabCounter, layoutOp>>
connVars == <<conn, sockets, connTimers, callerSignals, logs, lastAttempt, window>>
keyVars == <<matcher, keyTimers, keyOut>>
viewVars == <<renderersByPtyId, app, styleSeen, viewEvent, treeCall>>
vars == <<now, rpcVars, dataVars, layoutVars, connVars, keyVars, viewVars>>

-----------------------------------------------------------------------------
(* Bounds of the model *)

MaxRequests == 3
MaxLiveRequests == 2
MaxTime == 60000
TickStep == 15000
MaxPaneId == 3
MaxTabId == 3
MaxPtyId == 1
MaxSplitPaneId == 5
MaxSockets == 8
MaxWireBytes == 11
MaxKeyTime == 5000
KeyTickStep == 1000
MaxLost == 2
MaxConnTime == 12000

-----------------------------------------------------------------------------
(* Decoded MessagePack values (what msgpackr hands to the client), tagged  *)
(* by their JavaScript type.  Strings are sequences of character codes.    *)

VNil == [t |-> "nil"]
VInt(n) == [t |-> "int", v |-> n]
VStr(s) == [t |-> "str", v |-> s]
VArr(s) == [t |-> "arr", v |-> s]
VBool(b) == [t |-> "bool", v |-> b]
VMap(m) == [t |-> "map", v |-> m]
VUndefined == [t |-> "undefined"]

Null == -1

MessageTypeRequest == 0
MessageTypeResponse == 1
MessageTypeNotification == 2

REQUEST_TIMEOUT_MS == 30000

Min(S) == CHOOSE x \in S : \A y \in S : x <= y

Without(f, k) == [x \in DOMAIN f \ {k} |-> f[x]]

With(f, k, v) == [x \in DOMAIN f \cup {k} |-> IF x = k THEN v ELSE f[x]]

-----------------------------------------------------------------------------
(* RpcClient *)

\* The part of the state a handler of the client reads and writes.
RpcEnv == [rpc |-> rpc, timers |-> timers, promises |-> promises,
           removed |-> removed, calls |-> calls]

\* Map.delete(msgid) on pendingRequests, counting the deletions that found an entry.
DeletePending(env, msgid) ==
  IF msgid \in env.rpc.pendingRequests
    THEN [env EXCEPT !.rpc.pendingRequests = @ \ {msgid},
                     !.removed[msgid] = @ + 1]
    ELSE env

\* clearTimeout(pending.timeout)
ClearTimeout(env, msgid) ==
  [env EXCEPT !.timers = Without(@, msgid)]

\* pending.resolve / pending.reject: one settle call on the request's promise.
Settle(env, msgid, how) ==
  [env EXCEPT !.promises[msgid] = Append(@, how)]

\* HandleResponse with the bookkeeping forgotten: the entry stays in the table
\* and its timeout stays armed.
HandleResponse_KeepsEntry(env, msgid, error, result) ==
  IF msgid \in env.rpc.pendingRequests
    THEN IF error # VNil
           THEN Settle(env, msgid, [kind |-> "reject", by |-> "response", value |-> error])
           ELSE Settle(env, msgid, [kind |-> "resolve", by |-> "response", value |-> result])
    ELSE env

\* HandleResponse that resolves whatever the error field holds.
HandleResponse_AlwaysResolves(env, msgid, error, result) ==
  IF msgid \in env.rpc.pendingRequests
    THEN Settle(ClearTimeout(DeletePending(env, msgid), msgid), msgid,
                [kind |-> "resolve", by |-> "response", value |-> result])
    ELSE env

\* handleMessage, Response branch after the shape checks: correlate with the
\* pending table, remove the entry, disarm its timeout and settle the promise.
HandleResponse(env, msgid, error, result) ==
  IF msgid \in env.rpc.pendingRequests
    THEN LET e1 == ClearTimeout(DeletePending(env, msgid), msgid)
         IN  IF error # VNil
               THEN Settle(e1, msgid, [kind |-> "reject", by |-> "response", value |-> error])
               ELSE Settle(e1, msgid, [kind |-> "resolve", by |-> "response", value |-> result])
    ELSE env

\* handleMessage, Notification branch: call the handler registered for the method.
HandleNotification(env, method, params) ==
  IF method \in env.rpc.notificationHandlers
    THEN [env EXCEPT !.calls = Append(@, <<method, params>>)]
    ELSE env

\* handleMessage(message) on a decoded value.
HandleMessage(env, message) ==
  IF message.t # "arr" THEN env
  ELSE IF Len(message.v) = 0 THEN env
  ELSE LET type == message.v[1]
           rest == Tail(message.v)
       IN  IF type = VInt(MessageTypeResponse)
             THEN IF Len(rest) # 3 THEN env
                  ELSE IF rest[1].t # "int" THEN env
                  ELSE HandleResponse(env, rest[1].v, rest[2], rest[3])
           ELSE IF type = VInt(MessageTypeNotification)
             THEN IF Len(rest) # 2 THEN env
                  ELSE IF rest[1].t # "str" THEN env
                  ELSE HandleNotification(env, rest[1].v, rest[2])
           ELSE env

\* TimeoutCallback that rejects but leaves the entry in the pending table.
TimeoutCallback_KeepsEntry(env, msgid) ==
  Settle(env, msgid, [kind |-> "reject", by |-> "timeout", value |-> VNil])

\* TimeoutCallback that deletes the entry and does not reject.
TimeoutCallback_OnlyDeletes(env, msgid) == DeletePending(env, msgid)

\* The setTimeout callback of request(): delete the entry and reject.
TimeoutCallback(env, msgid) ==
  Settle(DeletePending(env, msgid), msgid,
         [kind |-> "reject", by |-> "timeout", value |-> VNil])

\* RequestBody that does not advance msgidCounter.
RequestBody_ReusesId(env, t, writeOk) ==
  LET msgid == env.rpc.msgidCounter
  IN  [env EXCEPT !.timers = With(@, msgid, t + REQUEST_TIMEOUT_MS),
                  !.promises = With(@, msgid, <<>>),
                  !.removed = With(@, msgid, 0),
                  !.rpc.pendingRequests = @ \cup {msgid}]

\* request(): take the next msgid, arm the timeout, register the pending entry
\* and write the encoded request; a throwing write undoes the registration.
RequestBody(env, t, writeOk) ==
  LET msgid == env.rpc.msgidCounter
      e1 == [env EXCEPT !.rpc.msgidCounter = @ + 1,
                        !.timers = With(@, msgid, t + REQUEST_TIMEOUT_MS),
                        !.promises = With(@, msgid, <<>>),
                        !.removed = With(@, msgid, 0)]
      e2 == [e1 EXCEPT !.rpc.pendingRequests = @ \cup {msgid}]
  IN  IF writeOk THEN e2
      ELSE Settle(ClearTimeout(DeletePending(e2, msgid), msgid), msgid,
                  [kind |-> "reject", by |-> "send", value |-> VNil])

SetRpcEnv(e) ==
  /\ rpc' = e.rpc
  /\ timers' = e.timers
  /\ promises' = e.promises
  /\ removed' = e.removed
  /\ calls' = e.calls

InitRpc ==
  /\ rpc = [msgidCounter |-> 1, pendingRequests |-> {},
            notificationHandlers |-> {}, buffer |-> <<>>]
  /\ timers = <<>>
  /\ promises = <<>>
  /\ removed = <<>>
  /\ issuedAt = <<>>
  /\ sent = {}
  /\ calls = <<>>
  /\ rpcEvent = [kind |-> "init", msgid |-> Null, wasPending |-> FALSE]

InitData ==
  /\ wire = <<>>
  /\ received = <<>>
  /\ handled = <<>>
  /\ sentMsgs = <<>>
  /\ dataEvent = [chunk |-> 0, carried |-> 0, dispatched |-> 0]

\* A caller issues a request.
Request(writeOk) ==
  /\ rpc.msgidCounter <= MaxRequests
  /\ SetRpcEnv(RequestBody(RpcEnv, now, writeOk))
  /\ issuedAt' = With(issuedAt, rpc.msgidCounter, now)
  /\ sent' = IF writeOk THEN sent \cup {rpc.msgidCounter} ELSE sent
  /\ rpcEvent' = [kind |-> "request", msgid |-> rpc.msgidCounter, wasPending |-> FALSE]
  /\ UNCHANGED <<now, dataVars, layoutVars, connVars, keyVars, viewVars>>

\* The id a decoded value carries when it has the shape of a Response, else Null.
ResponseId(message) ==
  IF /\ message.t = "arr"
     /\ Len(message.v) = 4
     /\ message.v[1] = VInt(MessageTypeResponse)
     /\ message.v[2].t = "int"
    THEN message.v[2].v
    ELSE Null

\* The socket delivers a chunk holding exactly one complete message while the
\* receive buffer is empty: processData decodes it and calls handleMessage.
Receive(message) ==
  /\ rpc.buffer = <<>>
  /\ SetRpcEnv(HandleMessage(RpcEnv, message))
  /\ rpcEvent' = [kind |-> "response", msgid |-> ResponseId(message),
                  wasPending |-> ResponseId(message) \in rpc.pendingRequests]
  /\ UNCHANGED <<now, issuedAt, sent, dataVars, layoutVars, connVars, keyVars, viewVars>>

\* A request timeout whose deadline has come fires.
Timeout(msgid) ==
  /\ msgid \in DOMAIN timers
  /\ timers[msgid] <= now
  /\ SetRpcEnv(TimeoutCallback([RpcEnv EXCEPT !.timers = Without(@, msgid)], msgid))
  /\ rpcEvent' = [kind |-> "timeout", msgid |-> msgid,
                  wasPending |-> msgid \in rpc.pendingRequests]
  /\ UNCHANGED <<now, issuedAt, sent, dataVars, layoutVars, connVars, keyVars, viewVars>>

-----------------------------------------------------------------------------
(* Request/response correlation under arbitrary server behaviour *)

ErrValue == VStr(<<101>>)

ResponsePool ==
  {VArr(<<VInt(MessageTypeResponse), VInt(id), err, res>>) :
      id \in 1..(MaxRequests + 1), err \in {VNil, ErrValue}, res \in {VNil, VInt(7)}}
  \cup {VArr(<<VInt(MessageTypeResponse), VInt(1), VNil>>),
        VArr(<<VInt(MessageTypeResponse), VStr(<<49>>), VNil, VNil>>),
        VArr(<<VInt(MessageTypeNotification), VStr(<<114>>), VNil>>),
        VArr(<<VInt(MessageTypeRequest), VInt(1), VStr(<<114>>), VNil>>),
        VArr(<<>>), VInt(5), VNil}

Deadline(msgid) == issuedAt[msgid] + REQUEST_TIMEOUT_MS

SettledBy(msgid) == {promises[msgid][i].by : i \in 1..Len(promises[msgid])}

\* C1: for every request, under any interleaving of Responses (duplicates
\* included) and timer expiry, the pending entry is removed at most once and the
\* promise is settled at most once, by the Response, the timeout or the failed
\* write and never by two of them; the entry is live exactly while the promise is
\* unsettled and its timeout armed, and once the clock has passed the deadline
\* both have happened exactly once.
C1_SettledExactlyOnce ==
  \A msgid \in DOMAIN promises :
    /\ Len(promises[msgid]) <= 1
    /\ removed[msgid] <= 1
    /\ Cardinality(SettledBy(msgid)) <= 1
    /\ SettledBy(msgid) \subseteq {"response", "timeout", "send"}
    /\ (msgid \in rpc.pendingRequests) <=> (promises[msgid] = <<>>)
    /\ (msgid \in rpc.pendingRequests) <=> (removed[msgid] = 0)
    /\ (msgid \in rpc.pendingRequests) <=> (msgid \in DOMAIN timers)
    /\ now > Deadline(msgid) => (Len(promises[msgid]) = 1 /\ removed[msgid] = 1)

\* A duplicate Response has just arrived for a request a Response had settled,
\* while another request was settled by its timeout.
C1_Witness ==
  /\ rpcEvent.kind = "response"
  /\ rpcEvent.msgid \in DOMAIN promises
  /\ ~rpcEvent.wasPending
  /\ SettledBy(rpcEvent.msgid) = {"response"}
  /\ \E other \in DOMAIN promises : SettledBy(other) = {"timeout"}

TimedOut(msgid) == msgid \in DOMAIN promises /\ "timeout" \in SettledBy(msgid)

\* C2: a request with no Response within REQUEST_TIMEOUT_MS is rejected by the
\* timeout at its deadline (it is never pending after it, and the timeout step
\* happens at the deadline and leaves the promise rejected by the timeout alone);
\* a Response for an id that has timed out or is not in the pending table
\* changes nothing.
C2_TimeoutThenStale ==
  /\ [](\A msgid \in DOMAIN promises :
          /\ msgid \in rpc.pendingRequests => now <= Deadline(msgid)
          /\ (now > Deadline(msgid) /\ SettledBy(msgid) \cap {"response", "send"} = {})
                => (Len(promises[msgid]) = 1 /\ promises[msgid][1].kind = "reject"
                    /\ promises[msgid][1].by = "timeout"))
  /\ [][/\ (rpcEvent'.kind = "timeout" /\ rpcEvent' # rpcEvent)
              => /\ now = Deadline(rpcEvent'.msgid)
                 /\ promises[rpcEvent'.msgid] = <<>>
                 /\ Len(promises'[rpcEvent'.msgid]) = 1
                 /\ promises'[rpcEvent'.msgid][1].by = "timeout"
                 /\ rpcEvent'.msgid \notin rpc'.pendingRequests
        /\ (/\ rpcEvent'.kind = "response"
            /\ rpcEvent'.msgid # Null
            /\ (TimedOut(rpcEvent'.msgid) \/ rpcEvent'.msgid \notin rpc.pendingRequests))
              => UNCHANGED <<rpc, timers, promises, removed, calls>>]_vars

\* A Response has just arrived for a request that had already timed out.
C2_Witness ==
  /\ rpcEvent.kind = "response"
  /\ rpcEvent.msgid \in DOMAIN promises
  /\ TimedOut(rpcEvent.msgid)
  /\ now > Deadline(rpcEvent.msgid)

-----------------------------------------------------------------------------
(* Layout model (layout.ts): panes, splits, tabs *)

NullNode == [type |-> "null"]

Half == [num |-> 1, den |-> 2]

PaneNode(id, ptyId) == [type |-> "pane", id |-> id, ptyId |-> ptyId]

RECURSIVE FindPaneInTree(_, _)
\* findPaneInTree: the pane node with this id, or NullNode.
FindPaneInTree(node, id) ==
  IF node.type = "pane"
    THEN IF node.id = id THEN node ELSE NullNode
    ELSE LET inFirst == FindPaneInTree(node.first, id)
         IN  IF inFirst # NullNode THEN inFirst ELSE FindPaneInTree(node.second, id)

RECURSIVE GetAllPaneIds(_)
\* getAllPaneIds: pane ids in depth-first (pre-order) order.
GetAllPaneIds(node) ==
  IF node.type = "pane"
    THEN <<node.id>>
    ELSE GetAllPaneIds(node.first) \o GetAllPaneIds(node.second)

HasPane(node, id) == FindPaneInTree(node, id) # NullNode

RECURSIVE SplitPane(_, _, _, _)
\* splitPane, with the pane id counter it draws from.  fresh says whether the
\* returned node is a newly allocated object (the code's `first !== node.first`
\* compares object identity, and every split node is rebuilt on the way back).
SplitPane(node, paneId, direction, counter) ==
  IF node.type = "pane"
    THEN IF node.id # paneId
           THEN [node |-> node, fresh |-> FALSE, counter |-> counter]
           ELSE [node |-> [type |-> "split", direction |-> direction, ratio |-> Half,
                           first |-> node,
                           second |-> PaneNode(counter + 1, Null)],
                 fresh |-> TRUE, counter |-> counter + 1]
    ELSE LET f == SplitPane(node.first, paneId, direction, counter)
         IN  IF f.fresh
               THEN [node |-> [node EXCEPT !.first = f.node],
                     fresh |-> TRUE, counter |-> f.counter]
               ELSE LET g == SplitPane(node.second, paneId, direction, f.counter)
                    IN  [node |-> [node EXCEPT !.second = g.node],
                         fresh |-> TRUE, counter |-> g.counter]

\* closePane that looks only at the two children of the root.
ClosePane_RootOnly(node, paneId) ==
  IF node.type = "pane"
    THEN IF node.id = paneId THEN NullNode ELSE node
    ELSE IF node.first.type = "pane" /\ node.first.id = paneId THEN node.second
    ELSE IF node.second.type = "pane" /\ node.second.id = paneId THEN node.first
    ELSE node

RECURSIVE ClosePane(_, _)
\* closePane: NullNode stands for the null that means "tab now empty".
ClosePane(node, paneId) ==
  IF node.type = "pane"
    THEN IF node.id = paneId THEN NullNode ELSE node
    ELSE LET first == ClosePane(node.first, paneId)
             second == ClosePane(node.second, paneId)
         IN  IF first = NullNode THEN second
             ELSE IF second = NullNode THEN first
             ELSE [node EXCEPT !.first = first, !.second = second]

RECURSIVE SetPtyId(_, _, _)
\* setPtyId, with the same object-identity test as splitPane.
SetPtyId(node, paneId, ptyId) ==
  IF node.type = "pane"
    THEN IF node.id = paneId
           THEN [node |-> [node EXCEPT !.ptyId = ptyId], fresh |-> TRUE]
           ELSE [node |-> node, fresh |-> FALSE]
    ELSE LET f == SetPtyId(node.first, paneId, ptyId)
         IN  IF f.fresh
               THEN [node |-> [node EXCEPT !.first = f.node], fresh |-> TRUE]
               ELSE [node |-> [node EXCEPT !.second = SetPtyId(node.second, paneId, ptyId).node],
                     fresh |-> TRUE]

\* createTab: a new tab holding one new pane.
CreateTab(pc, tc) ==
  [id |-> tc + 1, root |-> PaneNode(pc + 1, Null), focusedPaneId |-> pc + 1]

\* initLayout
InitLayout(pc, tc) ==
  [tabs |-> <<CreateTab(pc, tc)>>, activeTabId |-> CreateTab(pc, tc).id]

\* addTab
AddTab(state, pc, tc) ==
  [state EXCEPT !.tabs = Append(@, CreateTab(pc, tc)),
                !.activeTabId = CreateTab(pc, tc).id]

\* tabs.findIndex(t => t.id === tabId), 1-based; 0 when absent.
TabIndex(state, tabId) ==
  IF \E i \in 1..Len(state.tabs) : state.tabs[i].id = tabId
    THEN Min({i \in 1..Len(state.tabs) : state.tabs[i].id = tabId})
    ELSE 0

\* closeTab that makes the first remaining tab active when the active tab is
\* closed.
CloseTab_ActivatesFirst(state, tabId) ==
  IF Len(state.tabs) <= 1 \/ TabIndex(state, tabId) = 0 THEN state
  ELSE LET Other(t) == t.id # tabId
       IN  [tabs |-> SelectSeq(state.tabs, Other),
            activeTabId |-> IF state.activeTabId = tabId
                              THEN SelectSeq(state.tabs, Other)[1].id
                              ELSE state.activeTabId]

\* closeTab
CloseTab(state, tabId) ==
  IF Len(state.tabs) <= 1 THEN state
  ELSE LET index == TabIndex(state, tabId)
           Other(t) == t.id # tabId
       IN  IF index = 0 THEN state
           ELSE [tabs |-> SelectSeq(state.tabs, Other),
                 activeTabId |->
                   IF state.activeTabId = tabId
                     THEN IF index > 1 THEN state.tabs[index - 1].id
                                       ELSE state.tabs[index + 1].id
                     ELSE state.activeTabId]

\* setActiveTab
SetActiveTab(state, tabId) ==
  IF TabIndex(state, tabId) = 0 THEN state
  ELSE [state EXCEPT !.activeTabId = tabId]

\* getActiveTab: the active tab, or NullNode.
GetActiveTab(state) ==
  IF TabIndex(state, state.activeTabId) = 0 THEN NullNode
  ELSE state.tabs[TabIndex(state, state.activeTabId)]

\* updateTab
UpdateTab(state, tabId, updatedTab) ==
  [state EXCEPT !.tabs = [i \in 1..Len(state.tabs) |->
                            IF state.tabs[i].id = tabId THEN updatedTab ELSE state.tabs[i]]]

Last(seq) == seq[Len(seq)]

\* splitFocused, with the pane id counter.
SplitFocused(state, direction, pc) ==
  LET tab == GetActiveTab(state)
  IN  IF tab = NullNode THEN [state |-> state, counter |-> pc]
      ELSE LET r == SplitPane(tab.root, tab.focusedPaneId, direction, pc)
               newPaneId == Last(GetAllPaneIds(r.node))
           IN  [state |-> UpdateTab(state, tab.id,
                            [tab EXCEPT !.root = r.node, !.focusedPaneId = newPaneId]),
                counter |-> r.counter]

\* closeFocused that leaves focusedPaneId on the pane it has just removed.
CloseFocused_KeepsFocus(state) ==
  LET tab == GetActiveTab(state)
  IN  IF tab = NullNode THEN state
      ELSE LET newRoot == ClosePane(tab.root, tab.focusedPaneId)
           IN  IF newRoot = NullNode THEN CloseTab(state, tab.id)
               ELSE UpdateTab(state, tab.id, [tab EXCEPT !.root = newRoot])

\* closeFocused that leaves the layout alone when the tab would become empty.
CloseFocused_NeverClosesTab(state) ==
  LET tab == GetActiveTab(state)
  IN  IF tab = NullNode THEN state
      ELSE LET newRoot == ClosePane(tab.root, tab.focusedPaneId)
           IN  IF newRoot = NullNode THEN state
               ELSE UpdateTab(state, tab.id,
                      [tab EXCEPT !.root = newRoot,
                                  !.focusedPaneId = GetAllPaneIds(newRoot)[1]])

\* closeFocused
CloseFocused(state) ==
  LET tab == GetActiveTab(state)
  IN  IF tab = NullNode THEN state
      ELSE LET newRoot == ClosePane(tab.root, tab.focusedPaneId)
           IN  IF newRoot = NullNode THEN CloseTab(state, tab.id)
               ELSE UpdateTab(state, tab.id,
                      [tab EXCEPT !.root = newRoot,
                                  !.focusedPaneId = GetAllPaneIds(newRoot)[1]])

\* moveFocusToPane without the hasPane test.
MoveFocusToPane_Unchecked(state, paneId) ==
  LET tab == GetActiveTab(state)
  IN  IF tab = NullNode THEN state
      ELSE UpdateTab(state, tab.id, [tab EXCEPT !.focusedPaneId = paneId])

\* moveFocusToPane
MoveFocusToPane(state, paneId) ==
  LET tab == GetActiveTab(state)
  IN  IF tab = NullNode THEN state
      ELSE IF ~HasPane(tab.root, paneId) THEN state
      ELSE UpdateTab(state, tab.id, [tab EXCEPT !.focusedPaneId = paneId])

\* paneIds.indexOf(id), 1-based; 0 when absent.
IndexOf(seq, x) ==
  IF \E i \in 1..Len(seq) : seq[i] = x
    THEN Min({i \in 1..Len(seq) : seq[i] = x})
    ELSE 0

\* focusNext that stops at the last pane instead of wrapping to the first.
FocusNext_NoWrap(state, direction) ==
  LET tab == GetActiveTab(state)
  IN  IF tab = NullNode THEN state
      ELSE LET paneIds == GetAllPaneIds(tab.root)
               currentIndex == IndexOf(paneIds, tab.focusedPaneId)
               nextIndex == IF direction \in {"left", "up"}
                              THEN IF currentIndex > 1 THEN currentIndex - 1
                                                       ELSE Len(paneIds)
                              ELSE IF currentIndex < Len(paneIds) THEN currentIndex + 1
                                                                  ELSE currentIndex
           IN  IF Len(paneIds) <= 1 \/ currentIndex = 0 THEN state
               ELSE MoveFocusToPane(state, paneIds[nextIndex])

\* focusNext
FocusNext(state, direction) ==
  LET tab == GetActiveTab(state)
  IN  IF tab = NullNode THEN state
      ELSE LET paneIds == GetAllPaneIds(tab.root)
               currentIndex == IndexOf(paneIds, tab.focusedPaneId)
               nextIndex == IF direction \in {"left", "up"}
                              THEN IF currentIndex > 1 THEN currentIndex - 1
                                                       ELSE Len(paneIds)
                              ELSE (currentIndex % Len(paneIds)) + 1
           IN  IF Len(paneIds) <= 1 \/ currentIndex = 0 THEN state
               ELSE MoveFocusToPane(state, paneIds[nextIndex])

\* assignPtyToFocused
AssignPtyToFocused(state, ptyId) ==
  LET tab == GetActiveTab(state)
  IN  IF tab = NullNode THEN state
      ELSE UpdateTab(state, tab.id,
             [tab EXCEPT !.root = SetPtyId(tab.root, tab.focusedPaneId, ptyId).node])

\* validateLayoutState: the set of errors it reports.
ValidateLayoutState(state) ==
  (IF Len(state.tabs) = 0 THEN {[error |-> "no tabs", tab |-> 0]} ELSE {})
  \cup (IF TabIndex(state, state.activeTabId) = 0
          THEN {[error |-> "active tab missing", tab |-> state.activeTabId]} ELSE {})
  \cup {[error |-> "focused pane missing", tab |-> state.tabs[i].id] :
          i \in {j \in 1..Len(state.tabs) :
                   ~HasPane(state.tabs[j].root, state.tabs[j].focusedPaneId)}}
  \cup {[error |-> "no panes", tab |-> state.tabs[i].id] :
          i \in {j \in 1..Len(state.tabs) : Len(GetAllPaneIds(state.tabs[j].root)) = 0}}

InitLayoutVars ==
  /\ layoutState = InitLayout(0, 0)
  /\ paneCounter = 1
  /\ tabCounter = 1
  /\ layoutOp = [op |-> "initLayout", tab |-> 1, panesBefore |-> 0, created |-> Null]

\* Number of panes of the tab with this id (0 when the tab is gone).
PaneCount(state, tabId) ==
  IF TabIndex(state, tabId) = 0 THEN 0
  ELSE Len(GetAllPaneIds(state.tabs[TabIndex(state, tabId)].root))

\* What an operation on the active tab starts from.
OpRecord(op, created) ==
  [op |-> op, tab |-> layoutState.activeTabId,
   panesBefore |-> PaneCount(layoutState, layoutState.activeTabId),
   created |-> created]

\* splitFocused while pane ids up to maxId are left to hand out.
DoSplitFocusedUpTo(direction, maxId) ==
  LET r == SplitFocused(layoutState, direction, paneCounter)
     IN  /\ r.counter <= maxId
         /\ layoutState' = r.state
         /\ paneCounter' = r.counter
         /\ layoutOp' = OpRecord("splitFocused",
                                 IF r.counter > paneCounter THEN r.counter ELSE Null)
  /\ UNCHANGED <<now, tabCounter, rpcVars, dataVars, connVars, keyVars, viewVars>>

DoSplitFocused(direction) == DoSplitFocusedUpTo(direction, MaxPaneId)

DoCloseFocused ==
  /\ layoutState' = CloseFocused(layoutState)
  /\ layoutOp' = OpRecord("closeFocused", Null)
  /\ UNCHANGED <<now, paneCounter, tabCounter, rpcVars, dataVars, connVars, keyVars, viewVars>>

DoFocusNext(direction) ==
  /\ layoutState' = FocusNext(layoutState, direction)
  /\ layoutOp' = OpRecord("focusNext", Null)
  /\ UNCHANGED <<now, paneCounter, tabCounter, rpcVars, dataVars, connVars, keyVars, viewVars>>

DoMoveFocusToPane(paneId) ==
  /\ layoutState' = MoveFocusToPane(layoutState, paneId)
  /\ layoutOp' = OpRecord("moveFocusToPane", Null)
  /\ UNCHANGED <<now, paneCounter, tabCounter, rpcVars, dataVars, connVars, keyVars, viewVars>>

DoAddTab ==
  /\ paneCounter < MaxPaneId
  /\ tabCounter < MaxTabId
  /\ layoutState' = AddTab(layoutState, paneCounter, tabCounter)
  /\ paneCounter' = paneCounter + 1
  /\ tabCounter' = tabCounter + 1
  /\ layoutOp' = OpRecord("addTab", paneCounter + 1)
  /\ UNCHANGED <<now, rpcVars, dataVars, connVars, keyVars, viewVars>>

DoCloseTab(tabId) ==
  /\ layoutState' = CloseTab(layoutState, tabId)
  /\ layoutOp' = OpRecord("closeTab", Null)
  /\ UNCHANGED <<now, paneCounter, tabCounter, rpcVars, dataVars, connVars, keyVars, viewVars>>

DoSetActiveTab(tabId) ==
  /\ layoutState' = SetActiveTab(layoutState, tabId)
  /\ layoutOp' = OpRecord("setActiveTab", Null)
  /\ UNCHANGED <<now, paneCounter, tabCounter, rpcVars, dataVars, connVars, keyVars, viewVars>>

DoAssignPtyToFocused(ptyId) ==
  /\ layoutState' = AssignPtyToFocused(layoutState, ptyId)
  /\ layoutOp' = OpRecord("assignPtyToFocused", Null)
  /\ UNCHANGED <<now, paneCounter, tabCounter, rpcVars, dataVars, connVars, keyVars, viewVars>>

MaxRectSize == 4

Rect(x, y, width, height) == [x |-> x, y |-> y, width |-> width, height |-> height]

\* Math.floor(a + size * ratio), for an integer a and a rational ratio.
FloorAt(a, size, ratio) == (a * ratio.den + size * ratio.num) \div ratio.den

\* The bounds of the two children of a split that puts no divider between
\* them.
ChildBounds_NoDivider(node, bounds) ==
  IF node.direction = "vertical"
    THEN LET splitY == FloorAt(bounds.y, bounds.height, node.ratio)
         IN  [first |-> Rect(bounds.x, bounds.y, bounds.width, splitY - bounds.y),
              second |-> Rect(bounds.x, splitY, bounds.width,
                              bounds.height - (splitY - bounds.y))]
    ELSE LET splitX == FloorAt(bounds.x, bounds.width, node.ratio)
         IN  [first |-> Rect(bounds.x, bounds.y, splitX - bounds.x, bounds.height),
              second |-> Rect(splitX, bounds.y,
                              bounds.width - (splitX - bounds.x), bounds.height)]

\* calculatePaneRectInTree: firstBounds and secondBounds of a split.
ChildBounds(node, bounds) ==
  IF node.direction = "vertical"
    THEN LET splitY == FloorAt(bounds.y, bounds.height, node.ratio)
             firstHeight == splitY - bounds.y
             secondHeight == bounds.height - firstHeight - 1
         IN  [first |-> Rect(bounds.x, bounds.y, bounds.width, firstHeight),
              second |-> Rect(bounds.x, splitY + 1, bounds.width, secondHeight)]
    ELSE LET splitX == FloorAt(bounds.x, bounds.width, node.ratio)
             firstWidth == splitX - bounds.x
             secondWidth == bounds.width - firstWidth - 1
         IN  [first |-> Rect(bounds.x, bounds.y, firstWidth, bounds.height),
              second |-> Rect(splitX + 1, bounds.y, secondWidth, bounds.height)]

RECURSIVE CalculatePaneRectInTree(_, _, _)
\* calculatePaneRectInTree: the rectangle of the pane, or NullNode.
CalculatePaneRectInTree(node, paneId, bounds) ==
  IF node.type = "pane"
    THEN IF node.id = paneId THEN bounds ELSE NullNode
    ELSE LET inFirst == CalculatePaneRectInTree(node.first, paneId,
                                                ChildBounds(node, bounds).first)
         IN  IF inFirst # NullNode THEN inFirst
             ELSE CalculatePaneRectInTree(node.second, paneId,
                                          ChildBounds(node, bounds).second)

\* getPaneRect
GetPaneRect(state, paneId, containerRect) ==
  LET tab == GetActiveTab(state)
  IN  IF tab = NullNode THEN NullNode
      ELSE IF ~HasPane(tab.root, paneId) THEN NullNode
      ELSE CalculatePaneRectInTree(tab.root, paneId, containerRect)

\* getAllPaneRects: the Map of pane id -> rectangle.
GetAllPaneRects(state, containerRect) ==
  LET tab == GetActiveTab(state)
  IN  IF tab = NullNode THEN <<>>
      ELSE LET paneIds == GetAllPaneIds(tab.root)
               found == {paneIds[k] : k \in {j \in 1..Len(paneIds) :
                           GetPaneRect(state, paneIds[j], containerRect) # NullNode}}
           IN  [paneId \in found |-> GetPaneRect(state, paneId, containerRect)]

\* A direct call of a function of the layout module; what it returned is kept
\* in treeCall and the layout state is left as it is.
TreeCall(fn, args, result) ==
  /\ treeCall' = [fn |-> fn, args |-> args, result |-> result]
  /\ layoutOp' = OpRecord(fn, Null)
  /\ UNCHANGED <<renderersByPtyId, app, styleSeen, viewEvent>>
  /\ UNCHANGED <<now, layoutState, tabCounter, rpcVars, dataVars, connVars, keyVars>>

\* getAllPaneRects(state, containerRect)
CallGetAllPaneRects(containerRect) ==
  /\ TreeCall("getAllPaneRects", <<containerRect>>, GetAllPaneRects(layoutState, containerRect))
  /\ UNCHANGED paneCounter

\* splitPane(tab.root, paneId, direction) on the tree of the active tab
CallSplitPane(paneId, direction) ==
  /\ GetActiveTab(layoutState) # NullNode
  /\ LET r == SplitPane(GetActiveTab(layoutState).root, paneId, direction, paneCounter)
     IN  /\ r.counter <= MaxPaneId
         /\ paneCounter' = r.counter
         /\ TreeCall("splitPane", <<paneId, direction>>, r.node)

\* closePane(tab.root, paneId) on the tree of the active tab
CallClosePane(paneId) ==
  /\ GetActiveTab(layoutState) # NullNode
  /\ TreeCall("closePane", <<paneId>>, ClosePane(GetActiveTab(layoutState).root, paneId))
  /\ UNCHANGED paneCounter

\* setPtyId(tab.root, paneId, ptyId) on the tree of the active tab
CallSetPtyId(paneId, ptyId) ==
  /\ GetActiveTab(layoutState) # NullNode
  /\ TreeCall("setPtyId", <<paneId, ptyId>>,
              SetPtyId(GetActiveTab(layoutState).root, paneId, ptyId).node)
  /\ UNCHANGED paneCounter

SplitDirections == {"horizontal", "vertical"}

FocusDirections == {"up", "down", "left", "right"}

ActiveTab == GetActiveTab(layoutState)

\* C3: after any sequence of layout operations from initLayout(),
\* validateLayoutState reports no error: the tab list is non-empty, activeTabId
\* names a tab, every tab's focusedPaneId names a pane of its own tree, and every
\* tree has at least one pane.
C3_LayoutValid ==
  /\ ValidateLayoutState(layoutState) = {}
  /\ Len(layoutState.tabs) >= 1
  /\ \E i \in 1..Len(layoutState.tabs) : layoutState.tabs[i].id = layoutState.activeTabId
  /\ \A i \in 1..Len(layoutState.tabs) :
       /\ Len(GetAllPaneIds(layoutState.tabs[i].root)) >= 1
       /\ \E k \in 1..Len(GetAllPaneIds(layoutState.tabs[i].root)) :
            GetAllPaneIds(layoutState.tabs[i].root)[k] = layoutState.tabs[i].focusedPaneId

\* closeFocused has just removed a pane from a tab of several panes while
\* several tabs exist.
C3_Witness ==
  /\ layoutOp.op = "closeFocused"
  /\ layoutOp.panesBefore >= 2
  /\ Len(layoutState.tabs) >= 2
  /\ PaneCount(layoutState, layoutOp.tab) = layoutOp.panesBefore - 1

\* C4: after splitFocused the active tab's focusedPaneId is the id of the pane
\* that split created, and that pane has ptyId = null.
C4_SplitFocusesNewPane ==
  layoutOp.op = "splitFocused" =>
    /\ layoutOp.created # Null
    /\ ActiveTab.focusedPaneId = layoutOp.created
    /\ FindPaneInTree(ActiveTab.root, layoutOp.created) = PaneNode(layoutOp.created, Null)

\* C5: each splitFocused adds exactly one pane to the tab, and each closeFocused
\* on a tab of at least two panes removes exactly one.
C5_PaneCountTracksSplits ==
  /\ layoutOp.op = "splitFocused"
       => PaneCount(layoutState, layoutOp.tab) = layoutOp.panesBefore + 1
  /\ (layoutOp.op = "closeFocused" /\ layoutOp.panesBefore >= 2)
       => PaneCount(layoutState, layoutOp.tab) = layoutOp.panesBefore - 1

\* The tabs of a state other than the one with this id, in order.
TabsWithout(state, tabId) == SelectSeq(state.tabs, LAMBDA t : t.id # tabId)

\* C17: closeFocused on an active tab of exactly one pane removes that tab, and
\* only it, when the layout has two or more tabs; when it is the only tab the
\* layout stays as it was, with the tab, its pane and its focus.
C17_LastPaneClosesTab ==
  [][(/\ layoutOp'.op = "closeFocused"
      /\ DoCloseFocused
      /\ ActiveTab # NullNode
      /\ ActiveTab.root.type = "pane")
       => IF Len(layoutState.tabs) >= 2
            THEN /\ layoutState'.tabs = TabsWithout(layoutState, layoutState.activeTabId)
                 /\ Len(layoutState'.tabs) = Len(layoutState.tabs) - 1
                 /\ TabIndex(layoutState', layoutState.activeTabId) = 0
            ELSE /\ layoutState' = layoutState
                 /\ layoutState'.tabs = <<ActiveTab>>
                 /\ HasPane(layoutState'.tabs[1].root, ActiveTab.focusedPaneId)]_vars

\* closeFocused has just closed a single-pane tab and other tabs remain.
C17_Witness ==
  /\ layoutOp.op = "closeFocused"
  /\ layoutOp.panesBefore = 1
  /\ TabIndex(layoutState, layoutOp.tab) = 0
  /\ Len(layoutState.tabs) >= 1

RECURSIVE WithoutLeaf(_, _)
\* A split tree holding the leaf paneId, with that leaf removed and its parent
\* split replaced by the leaf's sibling subtree.
WithoutLeaf(node, paneId) ==
  IF node.first.type = "pane" /\ node.first.id = paneId THEN node.second
  ELSE IF node.second.type = "pane" /\ node.second.id = paneId THEN node.first
  ELSE IF HasPane(node.first, paneId)
    THEN [node EXCEPT !.first = WithoutLeaf(node.first, paneId)]
    ELSE [node EXCEPT !.second = WithoutLeaf(node.second, paneId)]

\* C19: closePane, as closeFocused applies it to the focused pane: on a tree of
\* at least two panes the result is the tree with that leaf removed and its
\* parent split replaced by the sibling subtree, the remaining panes keep their
\* pre-order and their ptyId; on a single-pane tree whose pane is the target the
\* result is the null that means the tab is now empty.
C19_ClosePaneCollapses ==
  [][(layoutOp'.op = "closeFocused" /\ DoCloseFocused /\ ActiveTab # NullNode)
       => LET root == ActiveTab.root
              paneId == ActiveTab.focusedPaneId
          IN  IF root.type = "pane"
                THEN root.id = paneId => ClosePane(root, paneId) = NullNode
                ELSE LET newRoot == GetActiveTab(layoutState').root
                     IN  /\ layoutState'.activeTabId = layoutState.activeTabId
                         /\ newRoot = ClosePane(root, paneId)
                         /\ newRoot = WithoutLeaf(root, paneId)
                         /\ GetAllPaneIds(newRoot)
                              = SelectSeq(GetAllPaneIds(root), LAMBDA q : q # paneId)
                         /\ \A k \in 1..Len(GetAllPaneIds(newRoot)) :
                              FindPaneInTree(newRoot, GetAllPaneIds(newRoot)[k])
                                = FindPaneInTree(root, GetAllPaneIds(newRoot)[k])]_vars

\* closeFocused has just taken one pane out of a tab of three, and a pane that
\* carries a PTY remains.
C19_Witness ==
  /\ layoutOp.op = "closeFocused"
  /\ layoutOp.panesBefore = 3
  /\ PaneCount(layoutState, layoutOp.tab) = 2
  /\ ActiveTab.id = layoutOp.tab
  /\ \E k \in 1..2 :
       FindPaneInTree(ActiveTab.root, GetAllPaneIds(ActiveTab.root)[k]).ptyId # Null

RECURSIVE FocusNextTimes(_, _, _)
\* focusNext applied n times.
FocusNextTimes(state, direction, n) ==
  IF n = 0 THEN state ELSE FocusNextTimes(FocusNext(state, direction), direction, n - 1)

\* The direction that undoes a focus step.
Opposite(direction) ==
  CASE direction = "right" -> "left"
    [] direction = "left" -> "right"
    [] direction = "down" -> "up"
    [] direction = "up" -> "down"

\* C21: focusNext moves the focus along the pre-order list of the active tab's
\* panes, right/down to the next pane and from the last to the first, left/up
\* to the previous pane and from the first to the last; a step followed by the
\* opposite step restores the state, n forward steps on n panes restore it, and
\* the tree and the other tabs are never changed.
C21_FocusCycles ==
  [][\A direction \in FocusDirections :
          (layoutOp'.op = "focusNext" /\ DoFocusNext(direction) /\ ActiveTab # NullNode)
            => LET paneIds == GetAllPaneIds(ActiveTab.root)
                   n == Len(paneIds)
                   i == IndexOf(paneIds, ActiveTab.focusedPaneId)
                   after == GetActiveTab(layoutState')
               IN  /\ i >= 1
                   /\ after.focusedPaneId =
                        IF direction \in {"right", "down"}
                          THEN IF i = n THEN paneIds[1] ELSE paneIds[i + 1]
                          ELSE IF i = 1 THEN paneIds[n] ELSE paneIds[i - 1]
                   /\ after.root = ActiveTab.root
                   /\ layoutState'.activeTabId = layoutState.activeTabId
                   /\ Len(layoutState'.tabs) = Len(layoutState.tabs)
                   /\ \A k \in 1..Len(layoutState.tabs) :
                        layoutState.tabs[k].id # layoutState.activeTabId
                          => layoutState'.tabs[k] = layoutState.tabs[k]
                   /\ FocusNext(layoutState', Opposite(direction)) = layoutState
                   /\ FocusNextTimes(layoutState', direction, n - 1) = layoutState]_vars

\* focusNext has just acted on a tab of three panes whose first child is a
\* split, and the focus is on the first pane of the pre-order.
C21_Witness ==
  /\ layoutOp.op = "focusNext"
  /\ layoutOp.panesBefore = 3
  /\ ActiveTab.root.first.type = "split"
  /\ ActiveTab.focusedPaneId = GetAllPaneIds(ActiveTab.root)[1]

\* The pane ids of a tree, as a set.
PaneIdSet(node) == {GetAllPaneIds(node)[k] : k \in 1..Len(GetAllPaneIds(node))}

\* The tab ids of a state, as a set.
TabIdSet(state) == {state.tabs[i].id : i \in 1..Len(state.tabs)}

\* C22: a layout operation that names a pane or a tab that does not exist
\* (splitPane, closePane, setPtyId, moveFocusToPane, closeTab, setActiveTab)
\* returns a layout equal in value to the one it was given, and allocates no
\* pane id.
C22_AbsentTargetIsNoOp ==
  [][/\ (/\ layoutOp'.op \in {"splitPane", "closePane", "setPtyId"}
         /\ treeCall'.fn = layoutOp'.op
         /\ treeCall'.args[1] \notin PaneIdSet(ActiveTab.root))
          => /\ treeCall'.result = ActiveTab.root
             /\ paneCounter' = paneCounter
             /\ layoutState' = layoutState
     /\ \A paneId \in (1..(MaxPaneId + 1)) \ PaneIdSet(ActiveTab.root) :
          (layoutOp'.op = "moveFocusToPane" /\ DoMoveFocusToPane(paneId))
            => layoutState' = layoutState
     /\ \A tabId \in (1..(MaxTabId + 1)) \ TabIdSet(layoutState) :
          /\ (layoutOp'.op = "closeTab" /\ DoCloseTab(tabId))
               => layoutState' = layoutState
          /\ (layoutOp'.op = "setActiveTab" /\ DoSetActiveTab(tabId))
               => layoutState' = layoutState]_vars

\* splitPane has just been called with a pane id that is not in a tree whose
\* first child is a split, and has returned that tree.
C22_Witness ==
  /\ treeCall.fn = "splitPane"
  /\ ActiveTab.root.type = "split"
  /\ ActiveTab.root.first.type = "split"
  /\ treeCall.args[1] \notin PaneIdSet(ActiveTab.root)
  /\ treeCall.result = ActiveTab.root

\* The cells a rectangle covers.
RectCells(rect) ==
  (rect.x..(rect.x + rect.width - 1)) \X (rect.y..(rect.y + rect.height - 1))

RECURSIVE RectsAsClaimed(_, _, _)
\* Every pane of the tree has, in rects, the rectangle it gets when each split
\* gives its first child floor(size x ratio) rows (columns) at the start of the
\* bounds and its second child the rest less one, starting one row (column)
\* after the divider.
RectsAsClaimed(node, bounds, rects) ==
  IF node.type = "pane"
    THEN node.id \in DOMAIN rects /\ rects[node.id] = bounds
    ELSE LET size == IF node.direction = "vertical" THEN bounds.height ELSE bounds.width
             firstSize == (size * node.ratio.num) \div node.ratio.den
             first == IF node.direction = "vertical"
                        THEN Rect(bounds.x, bounds.y, bounds.width, firstSize)
                        ELSE Rect(bounds.x, bounds.y, firstSize, bounds.height)
             second == IF node.direction = "vertical"
                         THEN Rect(bounds.x, bounds.y + firstSize + 1,
                                   bounds.width, size - firstSize - 1)
                         ELSE Rect(bounds.x + firstSize + 1, bounds.y,
                                   size - firstSize - 1, bounds.height)
         IN  /\ RectCells(first) \cap RectCells(second) = {}
             /\ RectsAsClaimed(node.first, first, rects)
             /\ RectsAsClaimed(node.second, second, rects)

\* C23: a top/bottom split of height h gives its first child floor(h x ratio)
\* rows at the top and its second child h - firstHeight - 1 rows starting one
\* row below the divider row, a left/right split does the same with columns,
\* and no two pane rectangles overlap.
C23_SplitReservesDivider ==
  [][(layoutOp'.op = "getAllPaneRects" /\ treeCall'.fn = "getAllPaneRects")
       => LET rects == treeCall'.result
          IN  /\ RectsAsClaimed(ActiveTab.root, treeCall'.args[1], rects)
              /\ \A p, q \in DOMAIN rects :
                   p # q => RectCells(rects[p]) \cap RectCells(rects[q]) = {}]_vars

\* The rectangles of three panes under two nested splits have been computed,
\* one of them in rows, and all three have cells.
C23_Witness ==
  /\ treeCall.fn = "getAllPaneRects"
  /\ Cardinality(DOMAIN treeCall.result) = 3
  /\ ActiveTab.root.type = "split"
  /\ \E p, q \in DOMAIN treeCall.result :
       /\ treeCall.result[p].y # treeCall.result[q].y
       /\ treeCall.result[p].x = treeCall.result[q].x
  /\ \A p \in DOMAIN treeCall.result : RectCells(treeCall.result[p]) # {}

\* C39: in a container of width and height at least 1, every rectangle
\* getPaneRect returns has width >= 0 and height >= 0 and lies inside the
\* container.
C39_RectsInsideContainer ==
  treeCall.fn = "getAllPaneRects"
    => LET container == treeCall.args[1]
           rects == treeCall.result
       IN  (container.width >= 1 /\ container.height >= 1)
             => \A p \in DOMAIN rects :
                  /\ rects[p].width >= 0
                  /\ rects[p].height >= 0
                  /\ rects[p].x >= container.x
                  /\ rects[p].y >= container.y
                  /\ rects[p].x + rects[p].width <= container.x + container.width
                  /\ rects[p].y + rects[p].height <= container.y + container.height

RECURSIVE WithLeafSplit(_, _, _, _)
\* A tree with the leaf paneId replaced by a split of that leaf and a new leaf
\* newId, every other node as it was.
WithLeafSplit(node, paneId, direction, newId) ==
  IF node.type = "pane"
    THEN IF node.id = paneId
           THEN [type |-> "split", direction |-> direction, ratio |-> Half,
                 first |-> node, second |-> PaneNode(newId, Null)]
           ELSE node
    ELSE [node EXCEPT !.first = WithLeafSplit(node.first, paneId, direction, newId),
                      !.second = WithLeafSplit(node.second, paneId, direction, newId)]

\* The pane ids in use in any tab of a state.
PaneIdsOf(state) ==
  UNION {{GetAllPaneIds(state.tabs[i].root)[k] :
            k \in 1..Len(GetAllPaneIds(state.tabs[i].root))} : i \in 1..Len(state.tabs)}

\* C20: splitPane, as splitFocused applies it to the focused pane of the active
\* tab: the leaf paneId is replaced by Split{direction, ratio 1/2, first = the
\* old leaf, second = a new leaf with a fresh id and ptyId = null}, and every
\* other node of the tree is as it was.
C20_SplitPaneReplacesLeaf ==
  [][\A direction \in SplitDirections :
       (layoutOp'.op = "splitFocused" /\ DoSplitFocused(direction) /\ ActiveTab # NullNode)
         => \E newId \in (1..(MaxPaneId + 1)) \ PaneIdsOf(layoutState) :
              GetActiveTab(layoutState').root
                = WithLeafSplit(ActiveTab.root, ActiveTab.focusedPaneId, direction, newId)]_vars


\* C14: a Response for an outstanding id i settles request i, resolving it with
\* the result when the error is null and rejecting it with the error otherwise,
\* and removes its entry; every other outstanding request stays in the pending
\* table, unsettled, with its timeout armed at the same deadline.
C14_ResponseSettlesOnlyItsRequest ==
  [][\A message \in ResponsePool :
       (/\ rpcEvent'.kind = "response"
        /\ rpcEvent'.wasPending
        /\ ResponseId(message) = rpcEvent'.msgid
        /\ Receive(message))
         => LET i == ResponseId(message)
                error == message.v[3]
                result == message.v[4]
            IN  /\ promises'[i] =
                     << IF error = VNil
                          THEN [kind |-> "resolve", by |-> "response", value |-> result]
                          ELSE [kind |-> "reject", by |-> "response", value |-> error] >>
                /\ i \notin rpc'.pendingRequests
                /\ \A j \in rpc.pendingRequests \ {i} :
                     /\ j \in rpc'.pendingRequests
                     /\ promises'[j] = <<>>
                     /\ j \in DOMAIN timers'
                     /\ timers'[j] = timers[j]]_vars

\* An error Response has just rejected one request while two others stay
\* outstanding.
C14_Witness ==
  /\ rpcEvent.kind = "response"
  /\ rpcEvent.wasPending
  /\ promises[rpcEvent.msgid]
       = <<[kind |-> "reject", by |-> "response", value |-> ErrValue]>>
  /\ Cardinality(rpc.pendingRequests) >= 2
  /\ \A j \in rpc.pendingRequests : promises[j] = <<>> /\ j \in DOMAIN timers

\* C15: every request gets an id larger than every id assigned before it on
\* this client, so the id is not in the pending table when its entry is set,
\* and every outstanding id lies below the next id to be assigned.
C15_IdsStrictlyIncreasing ==
  /\ [](/\ \A j \in DOMAIN promises : j < rpc.msgidCounter
        /\ rpc.pendingRequests \subseteq DOMAIN promises)
  /\ [][(\E writeOk \in BOOLEAN : Request(writeOk))
          => /\ rpcEvent'.msgid = rpc.msgidCounter
             /\ rpc'.msgidCounter > rpc.msgidCounter
             /\ rpcEvent'.msgid \notin rpc.pendingRequests
             /\ \A j \in DOMAIN promises : j < rpcEvent'.msgid]_vars

\* The third request has just been issued while two earlier ones are
\* outstanding.
C15_Witness ==
  /\ rpcEvent.kind = "request"
  /\ rpcEvent.msgid = 3
  /\ rpc.pendingRequests = {1, 2, 3}

-----------------------------------------------------------------------------
(* RpcClient.processData: framing of the inbound byte stream *)

RECURSIVE Read(_, _), ReadArray(_, _, _, _)

\* Unpackr.read at byte pos of buf (1-based): the value and the number of bytes
\* of buf consumed up to its end, or a throw.  Formats: positive fixint, fixarray,
\* fixstr (ASCII, so a byte is its character code), nil, fixext 1.  Reading past
\* the end of the data throws, and so does an extension type the Unpackr has no
\* reader for.
Read(buf, pos) ==
  IF pos > Len(buf) THEN [kind |-> "throw"]
  ELSE LET b == buf[pos]
       IN  IF b < 128 THEN [kind |-> "value", value |-> VInt(b), end |-> pos]
           ELSE IF b \in 144..159 THEN ReadArray(buf, pos + 1, b - 144, <<>>)
           ELSE IF b \in 160..191
             THEN IF pos + (b - 160) > Len(buf) THEN [kind |-> "throw"]
                  ELSE [kind |-> "value",
                        value |-> VStr(SubSeq(buf, pos + 1, pos + (b - 160))),
                        end |-> pos + (b - 160)]
           ELSE IF b = 192 THEN [kind |-> "value", value |-> VNil, end |-> pos]
           ELSE [kind |-> "throw"]

ReadArray(buf, pos, n, acc) ==
  IF n = 0 THEN [kind |-> "value", value |-> VArr(acc), end |-> pos - 1]
  ELSE LET r == Read(buf, pos)
       IN  IF r.kind = "value"
             THEN ReadArray(buf, r.end + 1, n - 1, Append(acc, r.value))
             ELSE r

RECURSIVE UnpackFrom(_, _, _, _)

\* unpackMultiple with the callback of processData: every value read is pushed
\* and its end recorded, until the data ends or a read throws.
UnpackFrom(buf, pos, messages, lastEnd) ==
  IF pos > Len(buf) THEN [messages |-> messages, lastEnd |-> lastEnd]
  ELSE LET r == Read(buf, pos)
       IN  IF r.kind = "value"
             THEN UnpackFrom(buf, r.end + 1, Append(messages, r.value), r.end)
             ELSE [messages |-> messages, lastEnd |-> lastEnd]

UnpackMultiple(buf) == UnpackFrom(buf, 1, <<>>, 0)

RECURSIVE HandleAll(_, _)

\* for (const msg of messages) this.handleMessage(msg)
HandleAll(env, messages) ==
  IF messages = <<>> THEN env
  ELSE HandleAll(HandleMessage(env, Head(messages)), Tail(messages))

\* ProcessData that forgets the bytes it could not decode.
ProcessData_DropsRemainder(env, chunk) ==
  LET buf == env.rpc.buffer \o chunk
      r == UnpackMultiple(buf)
  IN  [env |-> HandleAll([env EXCEPT !.rpc.buffer = <<>>], r.messages),
       messages |-> r.messages]

\* processData(chunk): append to the buffer, decode, cut the buffer at the end
\* of the last decoded value and handle the decoded values.
ProcessData(env, chunk) ==
  LET buf == env.rpc.buffer \o chunk
      r == UnpackMultiple(buf)
      rest == IF r.lastEnd > 0 THEN SubSeq(buf, r.lastEnd + 1, Len(buf)) ELSE buf
  IN  [env |-> HandleAll([env EXCEPT !.rpc.buffer = rest], r.messages),
       messages |-> r.messages]

\* Wire messages: the Response [1, 1, nil, 7], the Notification [2, "r", nil],
\* the Notification [2, "r", [nil]], the lone integer 5, the short Response
\* [1, 1, nil], and a fixext 1 value of extension type 1, for which the Unpackr
\* has no reader.
UnknownExtBytes == <<212, 1, 0>>

WirePool == {<<148, 1, 1, 192, 7>>, <<147, 2, 161, 114, 192>>,
             <<147, 2, 161, 114, 145, 192>>, <<5>>, <<147, 1, 1, 192>>,
             UnknownExtBytes}

\* on(method, handler)
On(method) ==
  /\ method \notin rpc.notificationHandlers
  /\ rpc' = [rpc EXCEPT !.notificationHandlers = @ \cup {method}]
  /\ UNCHANGED <<timers, promises, removed, issuedAt, sent, calls, rpcEvent>>
  /\ UNCHANGED <<now, dataVars, layoutVars, connVars, keyVars, viewVars>>

\* The server writes one message to the socket.
ServerSends(bytes) ==
  /\ Len(received) + Len(wire) + Len(bytes) <= MaxWireBytes
  /\ wire' = wire \o bytes
  /\ sentMsgs' = Append(sentMsgs, bytes)
  /\ UNCHANGED <<received, handled, dataEvent>>
  /\ UNCHANGED <<now, rpcVars, layoutVars, connVars, keyVars, viewVars>>

\* The socket's "data" event with the next n bytes: processData(chunk).
Deliver(n) ==
  /\ n \in 1..Len(wire)
  /\ LET chunk == SubSeq(wire, 1, n)
         r == ProcessData(RpcEnv, chunk)
     IN  /\ SetRpcEnv(r.env)
         /\ handled' = handled \o r.messages
         /\ received' = received \o chunk
         /\ dataEvent' = [chunk |-> n, carried |-> Len(rpc.buffer),
                          dispatched |-> Len(r.messages)]
  /\ wire' = SubSeq(wire, n + 1, Len(wire))
  /\ UNCHANGED <<issuedAt, sent, rpcEvent, sentMsgs>>
  /\ UNCHANGED <<now, layoutVars, connVars, keyVars, viewVars>>

\* The bytes received so far, delivered whole to a new client.
Whole(bytes) ==
  LET r == UnpackMultiple(bytes)
  IN  [messages |-> r.messages,
       buffer |-> IF r.lastEnd > 0 THEN SubSeq(bytes, r.lastEnd + 1, Len(bytes))
                  ELSE bytes]

\* C8: however the byte stream is cut into chunks, the messages dispatched so
\* far, in order, and the bytes kept in the buffer are those that one delivery
\* of all bytes received so far gives; so an incomplete trailing message stays
\* buffered and is dispatched once its rest arrives.
C8_ChunkBoundaryInvariance ==
  /\ handled = Whole(received).messages
  /\ rpc.buffer = Whole(received).buffer

\* A chunk has just completed a message whose first bytes came in an earlier
\* chunk, after at least one other message.
C8_Witness ==
  /\ dataEvent.carried > 0
  /\ dataEvent.dispatched >= 1
  /\ Len(handled) >= 2
  /\ Len(received) > dataEvent.chunk + dataEvent.carried

RECURSIVE Decodable(_)

\* The values of the messages of a sequence that are well-formed MessagePack.
Decodable(msgs) ==
  IF msgs = <<>> THEN <<>>
  ELSE LET r == Read(Head(msgs), 1)
       IN  (IF r.kind = "value" THEN <<r.value>> ELSE <<>>) \o Decodable(Tail(msgs))

\* C9: once every byte sent has been delivered, every well-formed message has
\* been dispatched, also those sent after a malformed one, and when the last
\* message was well-formed the buffer holds nothing.
C9_MalformedDropped ==
  wire = <<>> =>
    /\ handled = Decodable(sentMsgs)
    /\ (sentMsgs # <<>> /\ Read(Last(sentMsgs), 1).kind = "value") => rpc.buffer = <<>>

-----------------------------------------------------------------------------
(* PriseConnection *)

maxReconnectAttempts == 5

reconnectDelayMs == 1000

\* The part of the state the handlers of the connection manager read and write.
ConnEnv == [conn |-> conn, connTimers |-> connTimers, logs |-> logs]

Log(env, msg) == [env EXCEPT !.logs = @ \cup {msg}]

\* attemptReconnect() up to its await: give up at the cap, else count the attempt
\* and arm the delay timer.
AttemptReconnect(env, t) ==
  IF env.conn.reconnectAttempts >= maxReconnectAttempts
    THEN Log(env, "Max reconnection attempts reached")
    ELSE LET k == env.conn.reconnectAttempts + 1
             delay == reconnectDelayMs * k
         IN  Log([env EXCEPT !.conn.reconnectAttempts = k,
                             !.connTimers = Append(@, [k |-> k, setAt |-> t,
                                                       deadline |-> t + delay])],
                 "Attempting reconnect")

\* The "close" and the inner "error" handler of an established socket.
OnDisconnect(env, t, msg) ==
  AttemptReconnect([Log(env, msg) EXCEPT !.conn.isConnected = FALSE,
                                         !.conn.rpc = Null], t)

\* The "error" handler registered right after createConnection: it rejects the
\* promise of connect() only while the manager is not connected.
OnInitialError(env) ==
  IF ~env.conn.isConnected THEN Log(env, "Failed to connect") ELSE env

\* The catch branch of attemptReconnect().
OnReconnectRejected(env, t) ==
  AttemptReconnect(Log(env, "Reconnection failed"), t)

SetConnEnv(e) ==
  /\ conn' = e.conn
  /\ connTimers' = e.connTimers
  /\ logs' = e.logs

RemoveAt(seq, i) == SubSeq(seq, 1, i - 1) \o SubSeq(seq, i + 1, Len(seq))

NewSocket(by) ==
  [state |-> "connecting", by |-> by, promise |-> "pending",
   outage |-> IF window.down THEN window.outage ELSE 0]

\* The transport is a local socket: the outcome of a connection attempt is the
\* next event the loop delivers.
NoConnectPending == \A s \in DOMAIN sockets : sockets[s].state # "connecting"

InitConn ==
  /\ conn = [isConnected |-> FALSE, reconnectAttempts |-> 0, rpc |-> Null,
             socket |-> Null, onReconnect |-> FALSE]
  /\ sockets = <<>>
  /\ connTimers = <<>>
  /\ callerSignals = <<>>
  /\ logs = {}
  /\ lastAttempt = [at |-> 0, k |-> 0, setAt |-> 0, down |-> FALSE, pos |-> 0,
                    failedBefore |-> 0]
  /\ window = [down |-> FALSE, outage |-> 0, lost |-> 0, attempts |-> 0, failed |-> 0]

\* The caller's connect().
Connect ==
  /\ sockets = <<>>
  /\ sockets' = <<NewSocket("caller")>>
  /\ conn' = [conn EXCEPT !.socket = 1]
  /\ logs' = logs \cup {"Connecting to prise server"}
  /\ UNCHANGED <<connTimers, callerSignals, lastAttempt, window>>
  /\ UNCHANGED <<now, rpcVars, dataVars, layoutVars, keyVars, viewVars>>

\* setReconnectCallback(callback)
SetReconnectCallback ==
  /\ ~conn.onReconnect
  /\ NoConnectPending
  /\ conn' = [conn EXCEPT !.onReconnect = TRUE]
  /\ UNCHANGED <<sockets, connTimers, callerSignals, logs, lastAttempt, window>>
  /\ UNCHANGED <<now, rpcVars, dataVars, layoutVars, keyVars, viewVars>>

\* ReconnectResolved that never calls the reconnect callback.
ReconnectResolved_NoCallback(signals, c, s) == signals

\* attemptReconnect() after its await this.connect() has resolved, with the
\* manager's fields as the connect listener left them: the registered
\* callback, if any, is called.
ReconnectResolved(signals, c, s) ==
  IF c.onReconnect
    THEN Append(signals, [kind |-> "onReconnect", socket |-> s, rpc |-> c.rpc])
    ELSE signals

\* The connect listener of createConnection runs: the manager is connected, the
\* attempt counter is reset, the handlers are installed and the promise of
\* connect() resolves; inside the reconnect policy the awaiting
\* attemptReconnect() then calls the reconnect callback.
ConnectSucceeds(s) ==
  /\ s \in DOMAIN sockets
  /\ sockets[s].state = "connecting"
  /\ sockets' = [sockets EXCEPT ![s].state = "open", ![s].promise = "resolved"]
  /\ conn' = [conn EXCEPT !.isConnected = TRUE, !.reconnectAttempts = 0, !.rpc = s]
  /\ logs' = logs \cup {"Connected to prise server"}
  /\ callerSignals' =
       IF sockets[s].by = "caller"
         THEN Append(callerSignals, [kind |-> "resolved", socket |-> s, rpc |-> conn'.rpc])
         ELSE ReconnectResolved(callerSignals, conn', s)
  /\ window' = [window EXCEPT !.down = FALSE, !.attempts = 0, !.failed = 0]
  /\ UNCHANGED <<connTimers, lastAttempt>>
  /\ UNCHANGED <<now, rpcVars, dataVars, layoutVars, keyVars, viewVars>>

\* A socket fails before it is established: only the outer "error" handler is
\* registered.  A rejected connect() goes to its caller, or to the catch branch
\* of attemptReconnect().
ConnectFails(s) ==
  /\ s \in DOMAIN sockets
  /\ sockets[s].state = "connecting"
  /\ LET rejects == ~conn.isConnected
         e1 == OnInitialError(ConnEnv)
         e2 == IF rejects /\ sockets[s].by = "reconnect"
                 THEN OnReconnectRejected(e1, now) ELSE e1
     IN  /\ SetConnEnv(e2)
         /\ sockets' = [sockets EXCEPT ![s].state = "closed",
                          ![s].promise = IF rejects THEN "rejected" ELSE "pending"]
         /\ callerSignals' =
              IF rejects /\ sockets[s].by = "caller"
                THEN Append(callerSignals,
                            [kind |-> "rejected", socket |-> s, rpc |-> conn.rpc])
                ELSE callerSignals
  /\ window' = IF window.down /\ sockets[s].outage = window.outage
                 THEN [window EXCEPT !.failed = @ + 1] ELSE window
  /\ UNCHANGED lastAttempt
  /\ UNCHANGED <<now, rpcVars, dataVars, layoutVars, keyVars, viewVars>>

\* The outage that starts when an established connection is lost.
OpenWindow ==
  IF window.down THEN [window EXCEPT !.lost = @ + 1]
  ELSE [down |-> TRUE, outage |-> window.outage + 1, lost |-> window.lost + 1,
        attempts |-> 0, failed |-> 0]

\* The peer ends an established connection: the socket emits "close".
SocketCloses(s) ==
  /\ s \in DOMAIN sockets
  /\ sockets[s].state = "open"
  /\ NoConnectPending
  /\ window.lost < MaxLost
  /\ SetConnEnv(OnDisconnect(ConnEnv, now, "Connection closed"))
  /\ sockets' = [sockets EXCEPT ![s].state = "closed"]
  /\ window' = OpenWindow
  /\ UNCHANGED <<callerSignals, lastAttempt>>
  /\ UNCHANGED <<now, rpcVars, dataVars, layoutVars, keyVars, viewVars>>

\* An established connection fails with an error: the socket emits "error", which
\* runs the outer and the inner "error" handler, and then "close".
SocketErrors(s) ==
  /\ s \in DOMAIN sockets
  /\ sockets[s].state = "open"
  /\ NoConnectPending
  /\ window.lost < MaxLost
  /\ SetConnEnv(OnDisconnect(OnDisconnect(OnInitialError(ConnEnv), now, "Socket error"),
                             now, "Connection closed"))
  /\ sockets' = [sockets EXCEPT ![s].state = "closed"]
  /\ window' = OpenWindow
  /\ UNCHANGED <<callerSignals, lastAttempt>>
  /\ UNCHANGED <<now, rpcVars, dataVars, layoutVars, keyVars, viewVars>>

\* The delay of an attemptReconnect() is over: it calls connect().
ReconnectTimerFires(i) ==
  /\ i \in DOMAIN connTimers
  /\ connTimers[i].deadline <= now
  /\ Len(sockets) < MaxSockets
  /\ NoConnectPending
  /\ connTimers' = RemoveAt(connTimers, i)
  /\ sockets' = Append(sockets, NewSocket("reconnect"))
  /\ conn' = [conn EXCEPT !.socket = Len(sockets) + 1]
  /\ logs' = logs \cup {"Connecting to prise server"}
  /\ lastAttempt' =
       [at |-> now, k |-> connTimers[i].k, setAt |-> connTimers[i].setAt,
        down |-> window.down, pos |-> window.attempts + 1,
        failedBefore |-> window.failed]
  /\ window' = IF window.down THEN [window EXCEPT !.attempts = @ + 1] ELSE window
  /\ UNCHANGED callerSignals
  /\ UNCHANGED <<now, rpcVars, dataVars, layoutVars, keyVars, viewVars>>

\* C6: in an outage that follows the unexpected close or error of an established
\* connection, at most 5 connect attempts are made before a success, none is made
\* once 5 have failed, and the k-th is made 1000 x k ms after it was scheduled.
C6_BoundedLinearBackoff ==
  /\ window.attempts <= maxReconnectAttempts
  /\ lastAttempt.down =>
       /\ lastAttempt.failedBefore < maxReconnectAttempts
       /\ lastAttempt.at - lastAttempt.setAt = reconnectDelayMs * lastAttempt.pos

\* The reconnect attempts of the outage in progress are exhausted.
Exhausted == window.down /\ window.failed >= maxReconnectAttempts

\* What the caller can tell apart from an outage that is still being retried: a
\* rejection or a callback delivered since the connection was established.
TerminalFailureObservable ==
  \E i \in 1..Len(callerSignals) :
    /\ callerSignals[i].kind \in {"rejected", "failed"}
    /\ sockets[callerSignals[i].socket].by = "reconnect"

\* C7: once the 5th reconnect attempt has failed, a terminal failure is
\* observable to the caller of the connection manager.
C7_ExhaustionSurfaced == Exhausted => TerminalFailureObservable

\* The calls of the reconnect callback so far.
ReconnectCalls(signals) == SelectSeq(signals, LAMBDA x : x.kind = "onReconnect")

\* C16: a connect that succeeds inside the reconnect policy while a callback
\* is registered calls it exactly once, with the RPC client of the new socket
\* installed; no other step, a failed attempt in particular, calls it.
C16_ReconnectCallback ==
  [][/\ \A s \in 1..MaxSockets :
          (ConnectSucceeds(s) /\ sockets[s].by = "reconnect" /\ conn.onReconnect)
            => /\ conn'.rpc = s
               /\ conn'.isConnected
               /\ callerSignals' = Append(callerSignals,
                    [kind |-> "onReconnect", socket |-> s, rpc |-> s])
     /\ (~\E s \in 1..MaxSockets : ConnectSucceeds(s) /\ sockets[s].by = "reconnect")
            => ReconnectCalls(callerSignals') = ReconnectCalls(callerSignals)]_vars

\* A reconnect attempt has failed without a call, and a later one has just
\* succeeded and called the callback.
C16_Witness ==
  /\ callerSignals # <<>>
  /\ Last(callerSignals).kind = "onReconnect"
  /\ Last(callerSignals).socket = conn.rpc
  /\ sockets[conn.rpc].by = "reconnect"
  /\ Len(ReconnectCalls(callerSignals)) = 1
  /\ \E f \in DOMAIN sockets :
       /\ sockets[f].by = "reconnect"
       /\ sockets[f].promise = "rejected"
       /\ f < conn.rpc

\* The sockets that are open or being opened.
LiveSockets == {s \in DOMAIN sockets : sockets[s].state \in {"open", "connecting"}}

\* C36: at most one transport connection is open or being opened at any time.
C36_OneTransport == Cardinality(LiveSockets) <= 1

\* close(): the socket is destroyed and the manager forgets its RPC client.
\* Nothing is done about an armed reconnect delay.  Destroying an open socket
\* makes it emit "close" later; destroying a closed one emits nothing.
Close ==
  /\ conn.socket # Null
  /\ NoConnectPending
  /\ sockets' = [sockets EXCEPT ![conn.socket].state =
                   IF @ = "open" THEN "destroyed"
                   ELSE IF @ = "closed" THEN "destroyed-closed" ELSE @]
  /\ conn' = [conn EXCEPT !.isConnected = FALSE, !.rpc = Null]
  /\ UNCHANGED <<connTimers, callerSignals, logs, lastAttempt, window>>
  /\ UNCHANGED <<now, rpcVars, dataVars, layoutVars, keyVars, viewVars>>

\* A destroyed socket emits "close": an established socket has the "close"
\* handler of connect() registered, which starts the reconnect policy.
DestroyedSocketCloses(s) ==
  /\ s \in DOMAIN sockets
  /\ sockets[s].state = "destroyed"
  /\ SetConnEnv(OnDisconnect(ConnEnv, now, "Connection closed"))
  /\ sockets' = [sockets EXCEPT ![s].state = "destroyed-closed"]
  /\ window' = OpenWindow
  /\ UNCHANGED <<callerSignals, lastAttempt>>
  /\ UNCHANGED <<now, rpcVars, dataVars, layoutVars, keyVars, viewVars>>

\* C35: once the caller has closed the connection, no connect attempt is made:
\* no socket is created after the one close() destroyed.
C35_NoReconnectAfterClose ==
  \A s \in DOMAIN sockets :
    sockets[s].state \in {"destroyed", "destroyed-closed"}
      => \A later \in DOMAIN sockets : later <= s

\* The RpcClient followed through a reconnect is the one connect() created on
\* the first socket.
ClientExists == 1 \in DOMAIN sockets /\ sockets[1].promise = "resolved"

ClientOnline == ClientExists /\ sockets[1].state = "open"

\* C37: every request is eventually settled, also when the socket of its
\* client closes before a Response and the manager reconnects.
C37_EveryRequestSettles ==
  \A msgid \in 1..MaxLiveRequests :
    (msgid \in DOMAIN promises) ~> (msgid \in DOMAIN promises /\ promises[msgid] # <<>>)

\* The first request was written, its socket closed, the manager has
\* reconnected on a second socket, and the request was rejected by its timeout.
C37_Witness ==
  /\ 1 \in sent
  /\ TimedOut(1)
  /\ Len(promises[1]) = 1
  /\ sockets[1].state = "closed"
  /\ Len(sockets) >= 2
  /\ sockets[2].state = "open"
  /\ conn.rpc = 2

-----------------------------------------------------------------------------
(* Key encoding (input.ts) *)

\* charCodeAt(0) of the one-character keys of the model.
CharCode ==
  [c \in {"b", "B", "h", "j", "k", "l", "c", "n", "p", "x", "d", "z", "%", "\"", "["} |->
     CASE c = "b" -> 98 [] c = "B" -> 66 [] c = "h" -> 104 [] c = "j" -> 106
       [] c = "k" -> 107 [] c = "l" -> 108 [] c = "c" -> 99 [] c = "n" -> 110
       [] c = "p" -> 112 [] c = "x" -> 120 [] c = "d" -> 100 [] c = "z" -> 122
       [] c = "%" -> 37 [] c = "\"" -> 34 [] c = "[" -> 91]

NamedKeys ==
  {"escape", "left", "right", "up", "down", "f5", "f1", "tab", "return", "f13"}

KeyNames == DOMAIN CharCode \cup NamedKeys

KeyEvents ==
  [key : KeyNames, ctrl : BOOLEAN, alt : BOOLEAN, shift : BOOLEAN, meta : BOOLEAN]

\* key.toLowerCase()
Lower(key) ==
  IF key \in DOMAIN CharCode /\ CharCode[key] \in 65..90
    THEN CHOOSE c \in DOMAIN CharCode : CharCode[c] = CharCode[key] + 32
    ELSE key

cursorMode == "normal"

fnKeyMap ==
  [k \in {"f1", "f2", "f3", "f4", "f5", "f6", "f7", "f8", "f9", "f10", "f11", "f12"} |->
     CASE k = "f1" -> <<27, 79, 80>> [] k = "f2" -> <<27, 79, 81>>
       [] k = "f3" -> <<27, 79, 82>> [] k = "f4" -> <<27, 79, 83>>
       [] k = "f5" -> <<27, 91, 49, 53, 126>> [] k = "f6" -> <<27, 91, 49, 55, 126>>
       [] k = "f7" -> <<27, 91, 49, 56, 126>> [] k = "f8" -> <<27, 91, 49, 57, 126>>
       [] k = "f9" -> <<27, 91, 50, 48, 126>> [] k = "f10" -> <<27, 91, 50, 49, 126>>
       [] k = "f11" -> <<27, 91, 50, 51, 126>> [] k = "f12" -> <<27, 91, 50, 52, 126>>]

cursorPrefix == IF cursorMode = "application" THEN <<27, 79>> ELSE <<27, 91>>

navKeyMap ==
  [k \in {"up", "down", "right", "left", "home", "end", "pageup", "pagedown",
          "insert", "delete"} |->
     CASE k = "up" -> cursorPrefix \o <<65>> [] k = "down" -> cursorPrefix \o <<66>>
       [] k = "right" -> cursorPrefix \o <<67>> [] k = "left" -> cursorPrefix \o <<68>>
       [] k = "home" -> <<27, 91, 72>> [] k = "end" -> <<27, 91, 70>>
       [] k = "pageup" -> <<27, 91, 53, 126>> [] k = "pagedown" -> <<27, 91, 54, 126>>
       [] k = "insert" -> <<27, 91, 50, 126>> [] k = "delete" -> <<27, 91, 51, 126>>]

\* addModifiers(seq, {ctrl, alt, shift})
AddModifiers(seq, mods) ==
  IF ~mods.ctrl /\ ~mods.alt /\ ~mods.shift THEN seq
  ELSE LET code == 1 + (IF mods.shift THEN 1 ELSE 0) + (IF mods.alt THEN 2 ELSE 0)
                     + (IF mods.ctrl THEN 4 ELSE 0)
           middle == SubSeq(seq, 3, Len(seq) - 1)
           num == IF middle = <<>> THEN <<49>> ELSE middle
       IN  IF /\ Len(seq) > 2
              /\ SubSeq(seq, 1, 2) = <<27, 91>>
              /\ \A i \in 1..Len(middle) : middle[i] \in 48..57
             THEN <<27, 91>> \o num \o <<59, 48 + code, seq[Len(seq)]>>
             ELSE seq

\* InputHandler.encodeKey(event): the terminal bytes of a key, empty when the
\* key has no encoding.
EncodeKey(event) ==
  LET key == event.key
      isChar == key \in DOMAIN CharCode
      lower == Lower(key)
      control == event.ctrl /\ ~event.alt /\ ~event.meta /\ isChar
  IN  IF control /\ CharCode[key] \in 97..122 THEN <<CharCode[key] - 96>>
      ELSE IF control /\ CharCode[key] \in 65..90 THEN <<CharCode[key] - 64>>
      ELSE IF control /\ CharCode[key] \in 91..95 THEN <<CharCode[key] - 64>>
      ELSE IF lower \in DOMAIN fnKeyMap THEN AddModifiers(fnKeyMap[lower], event)
      ELSE IF lower \in DOMAIN navKeyMap THEN AddModifiers(navKeyMap[lower], event)
      ELSE IF lower \in {"return", "enter"}
        THEN IF event.alt /\ ~event.ctrl THEN <<10>> ELSE <<13>>
      ELSE IF lower = "tab" THEN IF event.shift THEN <<27, 91, 90>> ELSE <<9>>
      ELSE IF lower = "backspace" THEN <<127>>
      ELSE IF lower = "escape" THEN <<27>>
      ELSE IF lower = "space" THEN <<32>>
      ELSE IF event.alt /\ isChar THEN <<27, CharCode[key]>>
      ELSE IF isChar THEN <<CharCode[key]>>
      ELSE <<>>

-----------------------------------------------------------------------------
(* PrefixMatcher and KeyEventInterpreter (keybinds.ts) *)

timeoutMs == 2000

Noop == [type |-> "noop"]

SendToPty(data) == [type |-> "send_to_pty", data |-> data]

Focus(direction) == [type |-> "focus", direction |-> direction]

\* processKey returning null: the key is passed through.
PassThrough == [type |-> "null"]

KeyEnv == [matcher |-> matcher, keyTimers |-> keyTimers]

\* ResetPrefixState that disarms the timeout but stays in the prefix wait.
ResetPrefixState_KeepsWaiting(env) ==
  IF env.matcher.timeoutHandle # Null
    THEN [env EXCEPT !.keyTimers = Without(@, env.matcher.timeoutHandle),
                     !.matcher.timeoutHandle = Null]
    ELSE env

\* ResetPrefixState that leaves the armed timeout alone.
ResetPrefixState_LeavesTimer(env) ==
  [env EXCEPT !.matcher.waitingForCommand = FALSE]

\* resetPrefixState()
ResetPrefixState(env) ==
  LET e1 == [env EXCEPT !.matcher.waitingForCommand = FALSE]
  IN  IF e1.matcher.timeoutHandle # Null
        THEN [e1 EXCEPT !.keyTimers = Without(@, e1.matcher.timeoutHandle),
                        !.matcher.timeoutHandle = Null]
        ELSE e1

\* setTimeout returns a handle no armed timer has.
NewHandle(env) ==
  Min((1..(Cardinality(DOMAIN env.keyTimers) + 1)) \ DOMAIN env.keyTimers)

\* EnterPrefixWait that forgets to arm the cancellation timeout.
EnterPrefixWait_NoTimeout(env, t) ==
  [env EXCEPT !.matcher.waitingForCommand = TRUE]

\* enterPrefixWait()
EnterPrefixWait(env, t) ==
  LET e1 == [env EXCEPT !.matcher.waitingForCommand = TRUE]
      e2 == IF e1.matcher.timeoutHandle # Null
              THEN [e1 EXCEPT !.keyTimers = Without(@, e1.matcher.timeoutHandle)]
              ELSE e1
      h == NewHandle(e2)
  IN  [e2 EXCEPT !.keyTimers = With(@, h, t + timeoutMs),
                 !.matcher.timeoutHandle = h]

\* isPrefixKey(event)
IsPrefixKey(event) ==
  event.ctrl /\ ~event.alt /\ ~event.meta /\ Lower(event.key) = "b"

\* InterpretCommand without the binding that sends the prefix through.
InterpretCommand_NoPrefixThrough(key) ==
  IF key = "h" THEN Focus("left") ELSE Noop

\* interpretCommand(key)
InterpretCommand(key) ==
  CASE key = "h" -> Focus("left") [] key = "j" -> Focus("down")
    [] key = "k" -> Focus("up") [] key = "l" -> Focus("right")
    [] key = "left" -> Focus("left") [] key = "down" -> Focus("down")
    [] key = "up" -> Focus("up") [] key = "right" -> Focus("right")
    [] key = "%" -> [type |-> "split", direction |-> "horizontal"]
    [] key = "\"" -> [type |-> "split", direction |-> "vertical"]
    [] key = "b" -> SendToPty(<<2>>)
    [] key = "c" -> [type |-> "new_tab"]
    [] key = "n" -> [type |-> "next_tab"]
    [] key = "p" -> [type |-> "prev_tab"]
    [] key = "x" -> [type |-> "close_pane"]
    [] key = "d" -> [type |-> "detach"]
    [] OTHER -> Noop

\* processKey(event): the new matcher state and the Action, or the pass-through.
ProcessKey(env, event, t) ==
  LET key == Lower(event.key)
  IN  IF env.matcher.waitingForCommand /\ key = "escape"
        THEN [env |-> ResetPrefixState(env), action |-> Noop]
      ELSE IF env.matcher.waitingForCommand
        THEN [env |-> ResetPrefixState(env), action |-> InterpretCommand(key)]
      ELSE IF IsPrefixKey(event)
        THEN [env |-> EnterPrefixWait(env, t), action |-> Noop]
      ELSE [env |-> env, action |-> PassThrough]

\* handleKeyEvent that sends whatever encodeKey returns, also the empty string.
HandleKeyEvent_SendsEmpty(env, event, t) ==
  LET r == ProcessKey(env, event, t)
  IN  IF r.action # PassThrough THEN r
      ELSE [env |-> r.env, action |-> SendToPty(EncodeKey(event))]

\* KeyEventInterpreter.handleKeyEvent(event)
HandleKeyEvent(env, event, t) ==
  LET r == ProcessKey(env, event, t)
      encoded == EncodeKey(event)
  IN  IF r.action # PassThrough THEN r
      ELSE IF encoded # <<>> THEN [env |-> r.env, action |-> SendToPty(encoded)]
      ELSE [env |-> r.env, action |-> Noop]

\* Before the first key press.
NoKey == [key |-> "none", ctrl |-> FALSE, alt |-> FALSE, shift |-> FALSE, meta |-> FALSE]

InitKeys ==
  /\ matcher = [waitingForCommand |-> FALSE, timeoutHandle |-> Null]
  /\ keyTimers = <<>>
  /\ keyOut = [kind |-> "init", event |-> NoKey, action |-> [type |-> "none"],
               wasWaiting |-> FALSE, afterTimeout |-> FALSE, run |-> 0]

\* The user presses a key.
KeyPress(event) ==
  /\ LET r == HandleKeyEvent(KeyEnv, event, now)
     IN  /\ matcher' = r.env.matcher
         /\ keyTimers' = r.env.keyTimers
         /\ keyOut' = [kind |-> "key", event |-> event, action |-> r.action,
                       wasWaiting |-> matcher.waitingForCommand,
                       afterTimeout |-> keyOut.kind = "timeout",
                       run |-> IF ~IsPrefixKey(event) THEN 0
                               ELSE IF keyOut.run = 1 THEN 2 ELSE 1]
  /\ UNCHANGED <<now, rpcVars, dataVars, layoutVars, connVars, viewVars>>

\* The prefix timeout whose deadline has come fires.
PrefixTimeout(h) ==
  /\ h \in DOMAIN keyTimers
  /\ keyTimers[h] <= now
  /\ LET e == ResetPrefixState([KeyEnv EXCEPT !.keyTimers = Without(@, h)])
     IN  /\ matcher' = e.matcher
         /\ keyTimers' = e.keyTimers
  /\ keyOut' = [keyOut EXCEPT !.kind = "timeout", !.run = 0]
  /\ UNCHANGED <<now, rpcVars, dataVars, layoutVars, connVars, viewVars>>

\* The prefix chord of the key bindings: Ctrl+b without Alt or Meta.
PrefixChord(event) ==
  event.key = "b" /\ event.ctrl /\ ~event.alt /\ ~event.meta

CommandTable(event) ==
  LET key == Lower(event.key)
  IN  CASE key = "escape" -> Noop
        [] key \in {"h", "left"} -> Focus("left")
        [] key \in {"j", "down"} -> Focus("down")
        [] key \in {"k", "up"} -> Focus("up")
        [] key \in {"l", "right"} -> Focus("right")
        [] key = "%" -> [type |-> "split", direction |-> "horizontal"]
        [] key = "\"" -> [type |-> "split", direction |-> "vertical"]
        [] key = "c" -> [type |-> "new_tab"]
        [] key = "n" -> [type |-> "next_tab"]
        [] key = "p" -> [type |-> "prev_tab"]
        [] key = "x" -> [type |-> "close_pane"]
        [] key = "d" -> [type |-> "detach"]
        [] OTHER -> IF IsPrefixKey(event) THEN SendToPty(<<2>>) ELSE Noop

\* C11: a key press while the matcher waits for a command returns it to idle
\* with no cancellation timeout armed and yields the action of the command
\* table: Noop for Escape, the bound action for a command key, and Noop, never
\* terminal bytes, for any other key.
C11_CommandThenIdle ==
  [][(matcher.waitingForCommand /\ KeyPress(keyOut'.event))
       => /\ ~matcher'.waitingForCommand
          /\ matcher'.timeoutHandle = Null
          /\ DOMAIN keyTimers' = {}
          /\ keyOut'.action = CommandTable(keyOut'.event)]_vars

NavigationKeys == {"left", "right", "up", "down", "h", "j", "k", "l"}

PlainKey(key) ==
  [key |-> key, ctrl |-> FALSE, alt |-> FALSE, shift |-> FALSE, meta |-> FALSE]

\* C12: the prefix wait never outlasts its deadline, 2000 ms after the prefix
\* press: when the deadline expires the matcher is idle again with no timeout
\* armed, and a navigation key pressed after that yields send_to_pty with the
\* key's terminal bytes (ESC [ D for a plain Left), not a Focus action.
C12_DeadlineReturnsToIdle ==
  /\ [](matcher.waitingForCommand =>
          /\ matcher.timeoutHandle \in DOMAIN keyTimers
          /\ now <= keyTimers[matcher.timeoutHandle])
  /\ [][(keyOut'.kind = "timeout" /\ keyOut.kind # "timeout")
          => /\ ~matcher'.waitingForCommand
             /\ DOMAIN keyTimers' = {}]_vars
  /\ [][(/\ keyOut.kind = "timeout"
         /\ KeyPress(keyOut'.event)
         /\ Lower(keyOut'.event.key) \in NavigationKeys)
          => /\ ~matcher'.waitingForCommand
             /\ keyOut'.action.type = "send_to_pty"
             /\ keyOut'.action.data # <<>>
             /\ keyOut'.action.data = EncodeKey(keyOut'.event)
             /\ (keyOut'.event = PlainKey("left") => keyOut'.action.data = <<27, 91, 68>>)
             /\ (keyOut'.event = PlainKey("h") => keyOut'.action.data = <<104>>)]_vars

\* A plain Left has just been pressed after the prefix wait expired at its
\* deadline, and went to the PTY as ESC [ D.
C12_Witness ==
  /\ keyOut.kind = "key"
  /\ keyOut.afterTimeout
  /\ keyOut.event = PlainKey("left")
  /\ keyOut.action = SendToPty(<<27, 91, 68>>)
  /\ ~matcher.waitingForCommand
  /\ now >= timeoutMs

WholeEncoding(data) ==
  \/ Len(data) = 1
  \/ Len(data) = 2 /\ data[1] = 27
  \/ Len(data) = 3 /\ data[1] = 27 /\ data[2] = 79 /\ data[3] \in 64..126
  \/ /\ Len(data) >= 3
     /\ data[1] = 27
     /\ data[2] = 91
     /\ data[Len(data)] \in 64..126
     /\ \A i \in 3..(Len(data) - 1) : data[i] \in 48..59

\* C33: in Idle, a key that is not the prefix chord leaves the matcher Idle
\* with no deadline armed and yields either send_to_pty with the whole, non-empty
\* encoding of the key (a printable character as itself) or, when the key has
\* no encoding, noop; it never yields a layout action.
C33_IdleKeyIsEncoded ==
  [][(/\ keyOut'.kind = "key"
      /\ KeyPress(keyOut'.event)
      /\ ~matcher.waitingForCommand
      /\ ~(keyOut'.event.key \in {"b", "B"} /\ PrefixChord([keyOut'.event EXCEPT !.key = "b"])))
       => LET event == keyOut'.event
              action == keyOut'.action
          IN  /\ ~matcher'.waitingForCommand
              /\ keyTimers' = keyTimers
              /\ action.type \in {"send_to_pty", "noop"}
              /\ action.type = "noop" <=> EncodeKey(event) = <<>>
              /\ action.type = "send_to_pty"
                   => /\ action.data # <<>>
                      /\ action.data = EncodeKey(event)
                      /\ WholeEncoding(action.data)
                      /\ (event.key \in DOMAIN CharCode /\ ~event.ctrl /\ ~event.alt)
                           => action.data = <<CharCode[event.key]>>]_vars

\* Shift+Up pressed in Idle has been sent as the CSI sequence ESC [ 1 ; 2 A.
C33_Witness ==
  /\ keyOut.kind = "key"
  /\ ~keyOut.wasWaiting
  /\ keyOut.event.key = "up"
  /\ keyOut.event.shift
  /\ ~keyOut.event.ctrl
  /\ ~keyOut.event.alt
  /\ keyOut.action = SendToPty(<<27, 91, 49, 59, 50, 65>>)
  /\ ~matcher.waitingForCommand

\* C40: a prefix deadline is armed exactly while the matcher waits for a
\* command, and it is the one of the press that started this wait: the wait
\* starts with a single deadline 2000 ms ahead, keeps it, and the only deadline
\* that ends a wait is its own, so a wait that follows prefix, command key,
\* prefix lasts until 2000 ms after the second prefix press.
C40_DeadlineBelongsToWait ==
  /\ [](/\ matcher.waitingForCommand <=> keyTimers # <<>>
        /\ Cardinality(DOMAIN keyTimers) <= 1
        /\ matcher.waitingForCommand => matcher.timeoutHandle \in DOMAIN keyTimers
        /\ ~matcher.waitingForCommand => matcher.timeoutHandle = Null)
  /\ [][/\ (~matcher.waitingForCommand /\ matcher'.waitingForCommand)
             => /\ now' = now
                /\ \A h \in DOMAIN keyTimers' : keyTimers'[h] = now + timeoutMs
        /\ (matcher.waitingForCommand /\ matcher'.waitingForCommand)
             => /\ keyTimers' = keyTimers
                /\ \A h \in DOMAIN keyTimers : now' <= keyTimers[h]
        /\ (matcher.waitingForCommand /\ ~matcher'.waitingForCommand
              /\ keyOut'.kind = "timeout")
             => now = keyTimers[matcher.timeoutHandle]]_vars

\* The prefix chord has been pressed again, 1000 ms after an earlier press
\* whose command key followed: the only deadline armed is the new one.
C40_Witness ==
  /\ matcher.waitingForCommand
  /\ keyOut.kind = "key"
  /\ PrefixChord(keyOut.event)
  /\ keyOut.run = 1
  /\ ~keyOut.wasWaiting
  /\ now = KeyTickStep
  /\ \A h \in DOMAIN keyTimers : keyTimers[h] = now + timeoutMs

-----------------------------------------------------------------------------
(* Renderer (renderer.ts): one pane's grid of cells, style table, cursor,    *)
(* selection, title and dirty set.  Cells are addressed <<row, col>> from 0; *)
(* an absent style_id, repeat or width is Null.                              *)

MaxRows == 2
MaxCols == 2

StyleIds == {1}

StyleAttrs == {{"bold"}, {"reverse"}}

DefaultAttrs == {}

BlankCell == [grapheme |-> " ", style_id |-> Null]

CellsOf(rows, cols) == (0..(rows - 1)) \X (0..(cols - 1))

\* initGrid
InitGrid(rows, cols) == [p \in CellsOf(rows, cols) |-> BlankCell]

\* markAllDirty
MarkAllDirty(r) == [r EXCEPT !.dirtyCells = @ \cup CellsOf(r.rows, r.cols)]

\* new Renderer(rows, cols)
NewRenderer(rows, cols) ==
  MarkAllDirty([rows |-> rows, cols |-> cols,
                grid |-> InitGrid(rows, cols),
                styles |-> <<>>,
                cursorState |-> [row |-> 0, col |-> 0, visible |-> FALSE, shape |-> "block"],
                selectionState |-> [start_row |-> Null, start_col |-> Null,
                                    end_row |-> Null, end_col |-> Null],
                titleText |-> "",
                dirtyCells |-> {}])

\* clearDirty
ClearDirty(r) == [r EXCEPT !.dirtyCells = {}]

\* resize that reallocates the grid even when the dimensions are the same.
Resize_AlwaysReallocates(r, rows, cols) ==
  MarkAllDirty([r EXCEPT !.rows = rows, !.cols = cols,
                         !.grid = InitGrid(rows, cols), !.dirtyCells = {}])

\* resize
Resize(r, rows, cols) ==
  IF rows = r.rows /\ cols = r.cols THEN r
  ELSE MarkAllDirty([r EXCEPT !.rows = rows, !.cols = cols,
                              !.grid = InitGrid(rows, cols), !.dirtyCells = {}])

\* this.grid[row][c] = value: an index left of the row (c < 0) sets a stray
\* property of the array and no cell.
PutCell(grid, row, c, value) ==
  IF <<row, c>> \in DOMAIN grid THEN [grid EXCEPT ![<<row, c>>] = value] ELSE grid

\* One repetition of a cell at column st.c that wraps a wide cell's
\* continuation into the next row when it does not fit.
WriteOnce_Wraps(st, row, cell, styleId, cols) ==
  IF cell.width = 2
    THEN [grid |-> PutCell(PutCell(st.grid, row, st.c,
                                   [grapheme |-> cell.grapheme, style_id |-> styleId]),
                           IF st.c + 1 < cols THEN row ELSE row + 1,
                           IF st.c + 1 < cols THEN st.c + 1 ELSE 0,
                           [grapheme |-> " ", style_id |-> styleId]),
          dirty |-> st.dirty \cup {<<row, st.c>>, <<row, st.c + 1>>},
          c |-> st.c + 2]
    ELSE [grid |-> PutCell(st.grid, row, st.c,
                           [grapheme |-> cell.grapheme, style_id |-> styleId]),
          dirty |-> st.dirty \cup {<<row, st.c>>},
          c |-> st.c + 1]

\* The body of the repeat loop of write: one repetition of a cell at column
\* st.c.
WriteOnce(st, row, cell, styleId, cols) ==
  IF cell.width = 2 /\ st.c + 1 < cols
    THEN [grid |-> PutCell(PutCell(st.grid, row, st.c,
                                   [grapheme |-> cell.grapheme, style_id |-> styleId]),
                           row, st.c + 1, [grapheme |-> " ", style_id |-> styleId]),
          dirty |-> st.dirty \cup {<<row, st.c>>, <<row, st.c + 1>>},
          c |-> st.c + 2]
    ELSE [grid |-> PutCell(st.grid, row, st.c,
                           [grapheme |-> cell.grapheme, style_id |-> styleId]),
          dirty |-> st.dirty \cup {<<row, st.c>>},
          c |-> st.c + 1]

RECURSIVE WriteRepeats(_, _, _, _, _, _)
\* The repeat loop of write: `left` repetitions to go.
WriteRepeats(st, row, cell, styleId, cols, left) ==
  IF left <= 0 \/ st.c >= cols THEN st
  ELSE WriteRepeats(WriteOnce(st, row, cell, styleId, cols),
                    row, cell, styleId, cols, left - 1)

RECURSIVE WriteCells(_, _, _, _, _)
\* The loop of write over the cells, with currentStyleId.
WriteCells(st, row, cells, currentStyleId, cols) ==
  IF cells = <<>> \/ st.c >= cols THEN st
  ELSE LET cell == Head(cells)
           styleId == IF cell.style_id # Null THEN cell.style_id ELSE currentStyleId
           repeat == IF cell.repeat = Null THEN 1 ELSE cell.repeat
       IN  WriteCells(WriteRepeats(st, row, cell, styleId, cols, repeat),
                      row, Tail(cells), styleId, cols)

\* write(row, col, cells)
Write(r, row, col, cells) ==
  IF row < 0 \/ row >= r.rows THEN r
  ELSE LET st == WriteCells([grid |-> r.grid, dirty |-> r.dirtyCells, c |-> col],
                            row, cells, Null, r.cols)
       IN  [r EXCEPT !.grid = st.grid, !.dirtyCells = st.dirty]

\* Map.set(key, value)
MapSet(m, key, value) ==
  [k \in (DOMAIN m) \cup {key} |-> IF k = key THEN value ELSE m[k]]

\* style(id, attrs)
Style(r, id, attrs) == [r EXCEPT !.styles = MapSet(@, id, attrs)]

\* cursorPos that clears the dirty set before it marks the two positions.
CursorPos_ClearsDirty(r, row, col, visible) ==
  [r EXCEPT !.dirtyCells = {<<r.cursorState.row, r.cursorState.col>>, <<row, col>>},
            !.cursorState = [@ EXCEPT !.row = row, !.col = col, !.visible = visible]]

\* cursorPos(row, col, visible)
CursorPos(r, row, col, visible) ==
  [r EXCEPT !.dirtyCells = @ \cup {<<r.cursorState.row, r.cursorState.col>>, <<row, col>>},
            !.cursorState = [@ EXCEPT !.row = row, !.col = col, !.visible = visible]]

\* cursorShape(shape)
CursorShape(r, shape) ==
  [r EXCEPT !.cursorState.shape =
     CASE shape = 0 -> "block" [] shape = 1 -> "beam" [] shape = 2 -> "underline"
       [] OTHER -> "block"]

\* selection(start_row, start_col, end_row, end_col)
Selection(r, sr, sc, er, ec) ==
  [r EXCEPT !.selectionState = [start_row |-> sr, start_col |-> sc,
                                end_row |-> er, end_col |-> ec]]

\* title(text)
Title(r, text) == [r EXCEPT !.titleText = text]

MaxPaletteIndex == 255

\* xtermIndexToRgb: the table of the basic ANSI colors.
basic ==
  << <<0, 0, 0>>, <<205, 49, 49>>, <<13, 188, 121>>, <<229, 229, 16>>,
     <<36, 114, 200>>, <<188, 63, 188>>, <<17, 168, 205>>, <<229, 229, 229>>,
     <<102, 102, 102>>, <<241, 76, 76>>, <<35, 209, 139>>, <<245, 245, 67>>,
     <<59, 142, 234>>, <<214, 112, 214>>, <<41, 184, 219>>, <<255, 255, 255>> >>

\* xtermIndexToRgb: the levels of one channel of the colour cube.
steps == <<0, 95, 135, 175, 215, 255>>

Rgb(r, g, b) == [r |-> r, g |-> g, b |-> b]

\* xtermIndexToRgb that takes the cube digits from idx instead of idx - 16.
XtermIndexToRgb_CubeFromIndex(idx) ==
  IF idx >= 0 /\ idx <= 15
    THEN Rgb(basic[idx + 1][1], basic[idx + 1][2], basic[idx + 1][3])
  ELSE IF idx >= 16 /\ idx <= 231
    THEN LET n == idx
         IN  Rgb(steps[((n \div 36) % 6) + 1], steps[((n % 36) \div 6) + 1], steps[(n % 6) + 1])
  ELSE IF idx >= 232 /\ idx <= 255
    THEN LET shade == 8 + (idx - 232) * 10 IN Rgb(shade, shade, shade)
  ELSE Rgb(220, 220, 220)

\* xtermIndexToRgb(idx)
XtermIndexToRgb(idx) ==
  IF idx >= 0 /\ idx <= 15
    THEN Rgb(basic[idx + 1][1], basic[idx + 1][2], basic[idx + 1][3])
  ELSE IF idx >= 16 /\ idx <= 231
    THEN LET n == idx - 16
             r == n \div 36
             g == (n % 36) \div 6
             b == n % 6
         IN  Rgb(steps[r + 1], steps[g + 1], steps[b + 1])
  ELSE IF idx >= 232 /\ idx <= 255
    THEN LET shade == 8 + (idx - 232) * 10 IN Rgb(shade, shade, shade)
  ELSE Rgb(220, 220, 220)

\* The attributes renderToBuffer paints a cell of this style id with:
\* this.styles.get(styleId), or the defaults.
ResolveStyle(r, styleId) ==
  IF styleId # Null /\ styleId \in DOMAIN r.styles THEN r.styles[styleId] ELSE DefaultAttrs

\* The setCell call renderToBuffer makes for one cell.
PaintCell(r, opts, row, col) ==
  [x |-> col + opts.offsetX, y |-> row + opts.offsetY,
   glyph |-> r.grid[<<row, col>>].grapheme,
   attrs |-> ResolveStyle(r, r.grid[<<row, col>>].style_id),
   cursor |-> IF /\ opts.isFocused
                 /\ r.cursorState.visible
                 /\ r.cursorState.row = row
                 /\ r.cursorState.col = col
                THEN IF r.cursorState.shape = "block" THEN "inverse" ELSE "underline"
                ELSE "none"]

\* renderToBuffer(buffer, opts): the setCell calls made.  It reads the
\* Renderer and assigns none of its fields.
RenderToBuffer(r, opts) ==
  IF opts.forceFullRedraw
    THEN {PaintCell(r, opts, p[1], p[2]) :
            p \in CellsOf(Min({opts.height, r.rows}), Min({opts.width, r.cols}))}
    ELSE {PaintCell(r, opts, p[1], p[2]) :
            p \in {q \in r.dirtyCells :
                     /\ q[1] >= 0 /\ q[2] >= 0
                     /\ q[1] < opts.height /\ q[2] < opts.width
                     /\ q[1] < r.rows /\ q[2] < r.cols}}

-----------------------------------------------------------------------------
(* Direct calls of the methods of one Renderer instance, kept at key 1 *)

NoViewEvent ==
  [kind |-> "init", pty |-> Null, args |-> <<>>, dims |-> <<>>,
   requested |-> FALSE, applied |-> 0, events |-> 0]

\* dims: the dimensions the Renderer at this key had before the step.
ViewEvent(kind, pty, args) ==
  [NoViewEvent EXCEPT !.kind = kind, !.pty = pty, !.args = args,
                      !.dims = IF pty \in DOMAIN renderersByPtyId
                                 THEN <<renderersByPtyId[pty].rows, renderersByPtyId[pty].cols>>
                                 ELSE <<>>]

InitView ==
  /\ renderersByPtyId = <<>>
  /\ app = [rpc |-> Null, handlers |-> {}, mode |-> "picker", spawning |-> NullNode]
  /\ styleSeen = <<>>
  /\ viewEvent = NoViewEvent
  /\ treeCall = [fn |-> "none", args |-> <<>>, result |-> NullNode]

\* The cells of the grid of r2 whose content is not what r1 had there; all of
\* them when the grid was reallocated with other dimensions.
CellsChanged(r1, r2) ==
  IF r1.rows # r2.rows \/ r1.cols # r2.cols
    THEN CellsOf(r2.rows, r2.cols)
    ELSE {p \in DOMAIN r2.grid : r2.grid[p] # r1.grid[p]}

\* A method call on the Renderer at this key that returns r2.
RendererStep(pty, r2, kind, args) ==
  /\ pty \in DOMAIN renderersByPtyId
  /\ renderersByPtyId' = [renderersByPtyId EXCEPT ![pty] = r2]
  /\ viewEvent' = ViewEvent(kind, pty, args)
  /\ UNCHANGED <<app, styleSeen, treeCall>>
  /\ UNCHANGED <<now, rpcVars, dataVars, layoutVars, connVars, keyVars>>

\* new Renderer(rows, cols)
CallNewRenderer(pty, rows, cols) ==
  /\ pty \notin DOMAIN renderersByPtyId
  /\ renderersByPtyId' = MapSet(renderersByPtyId, pty, NewRenderer(rows, cols))
  /\ viewEvent' = ViewEvent("new", pty, <<rows, cols>>)
  /\ UNCHANGED <<app, styleSeen, treeCall>>
  /\ UNCHANGED <<now, rpcVars, dataVars, layoutVars, connVars, keyVars>>

CallWrite(pty, row, col, cells) ==
  /\ pty \in DOMAIN renderersByPtyId
  /\ RendererStep(pty, Write(renderersByPtyId[pty], row, col, cells), "write",
                  <<row, col, cells>>)

CallResize(pty, rows, cols) ==
  /\ pty \in DOMAIN renderersByPtyId
  /\ RendererStep(pty, Resize(renderersByPtyId[pty], rows, cols), "resize", <<rows, cols>>)

CallStyle(pty, id, attrs) ==
  /\ pty \in DOMAIN renderersByPtyId
  /\ RendererStep(pty, Style(renderersByPtyId[pty], id, attrs), "style", <<>>)

CallCursorPos(pty, row, col, visible) ==
  /\ pty \in DOMAIN renderersByPtyId
  /\ RendererStep(pty, CursorPos(renderersByPtyId[pty], row, col, visible), "cursorPos", <<>>)

CallCursorShape(pty, shape) ==
  /\ pty \in DOMAIN renderersByPtyId
  /\ RendererStep(pty, CursorShape(renderersByPtyId[pty], shape), "cursorShape", <<>>)

CallSelection(pty, sr, sc, er, ec) ==
  /\ pty \in DOMAIN renderersByPtyId
  /\ RendererStep(pty, Selection(renderersByPtyId[pty], sr, sc, er, ec), "selection", <<>>)

CallTitle(pty, text) ==
  /\ pty \in DOMAIN renderersByPtyId
  /\ RendererStep(pty, Title(renderersByPtyId[pty], text), "title", <<>>)

\* renderToBuffer(buffer, opts): the frame goes to the buffer (args keeps the
\* number of setCell calls), the Renderer is as it was.
CallRenderToBuffer(pty, opts) ==
  /\ pty \in DOMAIN renderersByPtyId
  /\ RendererStep(pty, renderersByPtyId[pty], "renderToBuffer",
                  <<Cardinality(RenderToBuffer(renderersByPtyId[pty], opts))>>)

CallClearDirty(pty) ==
  /\ pty \in DOMAIN renderersByPtyId
  /\ RendererStep(pty, ClearDirty(renderersByPtyId[pty]), "clearDirty", <<>>)

\* Inputs of the direct calls.
RenderCell(grapheme, style_id, repeat, width) ==
  [grapheme |-> grapheme, style_id |-> style_id, repeat |-> repeat, width |-> width]

NarrowCell == RenderCell("A", Null, Null, Null)

WideCell == RenderCell("W", 1, Null, 2)

RepeatedCell == RenderCell("A", Null, 2, 1)

CellLists == {<<NarrowCell>>, <<WideCell>>, <<WideCell, NarrowCell>>, <<RepeatedCell>>}

PaintOpts ==
  {[width |-> MaxCols, height |-> MaxRows, offsetX |-> 0, offsetY |-> 1,
    isFocused |-> TRUE, forceFullRedraw |-> f] : f \in BOOLEAN}


\* The column units a list of cells asks for, left to right: each repetition
\* of a cell is its grapheme, followed by a blank of the same style when the
\* cell is two columns wide.  A cell without a style id takes the last one
\* given before it.
RECURSIVE Repeated(_, _)
Repeated(units, n) == IF n <= 0 THEN <<>> ELSE units \o Repeated(units, n - 1)

RECURSIVE ColumnUnits(_, _)
ColumnUnits(cells, currentStyleId) ==
  IF cells = <<>> THEN <<>>
  ELSE LET cell == Head(cells)
           styleId == IF cell.style_id # Null THEN cell.style_id ELSE currentStyleId
           one == IF cell.width = 2
                    THEN <<[grapheme |-> cell.grapheme, style_id |-> styleId],
                           [grapheme |-> " ", style_id |-> styleId]>>
                    ELSE <<[grapheme |-> cell.grapheme, style_id |-> styleId]>>
       IN  Repeated(one, IF cell.repeat = Null THEN 1 ELSE cell.repeat)
             \o ColumnUnits(Tail(cells), styleId)

\* C24: write(row, col, cells) lays the cells out left to right from
\* (row, col), one column for a width-1 cell, the grapheme and a blank
\* continuation of the same style for a width-2 cell; what would fall at a
\* column >= cols is dropped, so no cell of another row is touched and the grid
\* keeps its rows x cols cells.
C24_WriteTruncates ==
  [][viewEvent'.kind = "write"
       => LET pty == viewEvent'.pty
              row == viewEvent'.args[1]
              col == viewEvent'.args[2]
              units == ColumnUnits(viewEvent'.args[3], Null)
              r == renderersByPtyId[pty]
              r2 == renderersByPtyId'[pty]
          IN  /\ r2.rows = r.rows /\ r2.cols = r.cols
              /\ DOMAIN r2.grid = CellsOf(r.rows, r.cols)
              /\ \A p \in DOMAIN r2.grid :
                   r2.grid[p] =
                     IF p[1] = row /\ p[2] >= col /\ p[2] < col + Len(units)
                       THEN units[p[2] - col + 1]
                       ELSE r.grid[p]]_vars

\* A wide cell has just been written into the last column of the first row of
\* a two-row grid: its grapheme is there and the second row is blank.
C24_Witness ==
  /\ viewEvent.kind = "write"
  /\ viewEvent.args[1] = 0
  /\ viewEvent.args[3] = <<WideCell>>
  /\ LET r == renderersByPtyId[viewEvent.pty]
     IN  /\ r.rows = 2
         /\ viewEvent.args[2] = r.cols - 1
         /\ r.grid[<<0, r.cols - 1>>].grapheme = "W"
         /\ \A c \in 0..(r.cols - 1) : r.grid[<<1, c>>] = BlankCell

\* C25: resize(rows, cols) with the current dimensions changes nothing: grid
\* and dirty set are kept; with other dimensions the grid becomes rows x cols
\* blank cells and every cell of it is dirty.
C25_ResizeReallocates ==
  [][viewEvent'.kind = "resize"
       => LET pty == viewEvent'.pty
              rows == viewEvent'.args[1]
              cols == viewEvent'.args[2]
              r == renderersByPtyId[pty]
              r2 == renderersByPtyId'[pty]
          IN  IF rows = r.rows /\ cols = r.cols
                THEN r2 = r
                ELSE /\ r2.rows = rows /\ r2.cols = cols
                     /\ r2.grid = [p \in CellsOf(rows, cols) |-> BlankCell]
                     /\ CellsOf(rows, cols) \subseteq r2.dirtyCells]_vars

\* resize has just replaced a grid that held a written cell by a larger one.
C25_Witness ==
  /\ viewEvent.kind = "resize"
  /\ viewEvent.dims = <<1, 1>>
  /\ viewEvent.args = <<2, 2>>
  /\ renderersByPtyId[viewEvent.pty].dirtyCells = CellsOf(2, 2)
  /\ \A p \in CellsOf(2, 2) : renderersByPtyId[viewEvent.pty].grid[p] = BlankCell

\* C26: every grid cell a step changes is in the dirty set after the step, and
\* a dirty entry of a cell of the grid stays until clearDirty, so every cell
\* changed by write or resize since the last clearDirty is dirty;
\* renderToBuffer and style, cursor, selection and title calls remove no dirty
\* entry; the set is emptied by clearDirty only.
C26_DirtyTracksChanges ==
  [][\A pty \in DOMAIN renderersByPtyId :
       LET r == renderersByPtyId[pty]
           r2 == renderersByPtyId'[pty]
       IN  /\ CellsChanged(r, r2) \subseteq r2.dirtyCells
           /\ viewEvent'.kind # "clearDirty"
                => (r.dirtyCells \cap DOMAIN r2.grid) \subseteq r2.dirtyCells
           /\ viewEvent'.kind \in {"renderToBuffer", "style", "cursorPos", "cursorShape",
                                   "selection", "title"}
                => r.dirtyCells \subseteq r2.dirtyCells
           /\ (r.dirtyCells # {} /\ r2.dirtyCells = {})
                => viewEvent'.kind = "clearDirty" /\ viewEvent'.pty = pty]_vars

\* The Renderer has just been painted while some cells, and not all, are
\* dirty: there was a clearDirty, then a change, and the paint kept the entries.
C26_Witness ==
  /\ viewEvent.kind = "renderToBuffer"
  /\ renderersByPtyId[viewEvent.pty].dirtyCells # {}
  /\ renderersByPtyId[viewEvent.pty].dirtyCells \subseteq DOMAIN renderersByPtyId[viewEvent.pty].grid
  /\ renderersByPtyId[viewEvent.pty].dirtyCells # DOMAIN renderersByPtyId[viewEvent.pty].grid

-----------------------------------------------------------------------------
(* The App (layout.ts): redraw notifications applied to the Renderers of the *)
(* attached PTYs.  Event names, titles and graphemes are written as strings. *)

MaxViewPty == 2

ViewPtys == 1..MaxViewPty

\* toNumber: the number, or Null (no event of the model carries -1).
ToNumber(val) == IF val.t = "int" THEN val.v ELSE Null

\* toString (the name ToString is taken by TLC): the string, or NullNode.
ToStr(val) == IF val.t = "str" THEN val.v ELSE NullNode

\* toString(val) === null
NoString(val) == val.t # "str"

NumberAttrs == {"fg", "bg", "fg_idx", "bg_idx", "ul_style", "ul_color"}

BooleanAttrs == {"bold", "dim", "italic", "underline", "reverse", "blink", "strikethrough"}

\* toStyleAttributes: the known attributes of the right type, as a set of
\* <<name, value>>.
ToStyleAttributes(val) ==
  IF val.t # "map" THEN {}
  ELSE {<<k, val.v[k].v>> : k \in {n \in DOMAIN val.v :
          \/ n \in NumberAttrs /\ val.v[n].t = "int"
          \/ n \in BooleanAttrs /\ val.v[n].t = "bool"}}

\* args[i] of a JavaScript array (i from 0).
Arg(args, i) == IF i + 1 \in 1..Len(args) THEN args[i + 1] ELSE VUndefined

RECURSIVE ParseWriteCells(_)
\* parseWriteCells on the elements of an array.
ParseWriteCells(cells) ==
  IF cells = <<>> THEN <<>>
  ELSE LET cell == Head(cells)
           rest == ParseWriteCells(Tail(cells))
       IN  IF cell.t # "arr" \/ Len(cell.v) < 1 THEN rest
           ELSE IF NoString(cell.v[1]) THEN rest
           ELSE <<[grapheme |-> ToStr(cell.v[1]),
                   style_id |-> IF Len(cell.v) >= 2 THEN ToNumber(cell.v[2]) ELSE Null,
                   repeat |-> IF Len(cell.v) >= 3 THEN ToNumber(cell.v[3]) ELSE Null,
                   width |-> IF Len(cell.v) >= 4 THEN ToNumber(cell.v[4]) ELSE Null]>> \o rest

\* applyRedraw: what one event with this name and these arguments does to the
\* Renderer it addresses.
ApplyToModel(model, name, args) ==
  CASE name = "resize" ->
         IF ToNumber(Arg(args, 1)) = Null \/ ToNumber(Arg(args, 2)) = Null THEN model
         ELSE Resize(model, ToNumber(Arg(args, 1)), ToNumber(Arg(args, 2)))
    [] name = "title" ->
         IF NoString(Arg(args, 1)) THEN model
         ELSE Title(model, ToStr(Arg(args, 1)))
    [] name = "cursor_pos" ->
         IF ToNumber(Arg(args, 1)) = Null \/ ToNumber(Arg(args, 2)) = Null THEN model
         ELSE CursorPos(model, ToNumber(Arg(args, 1)), ToNumber(Arg(args, 2)),
                        IF Arg(args, 3).t = "bool" THEN Arg(args, 3).v ELSE FALSE)
    [] name = "cursor_shape" ->
         IF ToNumber(Arg(args, 1)) = Null THEN model
         ELSE CursorShape(model, ToNumber(Arg(args, 1)))
    [] name = "selection" ->
         Selection(model, ToNumber(Arg(args, 1)), ToNumber(Arg(args, 2)),
                   ToNumber(Arg(args, 3)), ToNumber(Arg(args, 4)))
    [] name = "write" ->
         IF ToNumber(Arg(args, 1)) = Null \/ ToNumber(Arg(args, 2)) = Null THEN model
         ELSE Write(model, ToNumber(Arg(args, 1)), ToNumber(Arg(args, 2)),
                    IF Arg(args, 3).t = "arr" THEN ParseWriteCells(Arg(args, 3).v) ELSE <<>>)
    [] OTHER -> model

\* A dispatch that hands an event for a PTY without a Renderer to every Renderer.
ApplyNamed_MissingGoesToAll(st, name, args) ==
  IF name = "flush" THEN [st EXCEPT !.shouldFlush = TRUE]
  ELSE IF name = "style"
    THEN IF ToNumber(Arg(args, 0)) = Null THEN st
         ELSE [st EXCEPT !.renderers =
                 [p \in DOMAIN st.renderers |->
                    Style(st.renderers[p], ToNumber(Arg(args, 0)),
                          ToStyleAttributes(Arg(args, 1)))]]
  ELSE LET pty == ToNumber(Arg(args, 0))
       IN  IF pty = Null THEN st
           ELSE IF pty \notin DOMAIN st.renderers
             THEN [st EXCEPT !.renderers =
                     [p \in DOMAIN st.renderers |-> ApplyToModel(st.renderers[p], name, args)]]
           ELSE [st EXCEPT !.renderers[pty] = ApplyToModel(@, name, args)]

\* applyRedraw: the body of the loop for an event whose name and args passed
\* the shape tests.
ApplyNamed(st, name, args) ==
  IF name = "flush" THEN [st EXCEPT !.shouldFlush = TRUE]
  ELSE IF name = "style"
    THEN IF ToNumber(Arg(args, 0)) = Null THEN st
         ELSE [st EXCEPT !.renderers =
                 [p \in DOMAIN st.renderers |->
                    Style(st.renderers[p], ToNumber(Arg(args, 0)),
                          ToStyleAttributes(Arg(args, 1)))]]
  ELSE LET pty == ToNumber(Arg(args, 0))
       IN  IF pty = Null \/ pty \notin DOMAIN st.renderers THEN st
           ELSE [st EXCEPT !.renderers[pty] = ApplyToModel(@, name, args)]

\* The shape tests of the loop of applyRedraw.
WellFormed(event) ==
  /\ event.t = "arr"
  /\ Len(event.v) = 2
  /\ ~NoString(event.v[1])
  /\ ToStr(event.v[1]) # ""
  /\ event.v[2].t = "arr"

\* One iteration that sets shouldFlush for every event it applies.
ApplyEvent_AnyEventFlushes(st, event) ==
  IF ~WellFormed(event) THEN st
  ELSE [ApplyNamed(st, event.v[1].v, event.v[2].v) EXCEPT !.shouldFlush = TRUE]

\* applyRedraw: one iteration of the loop over the events.
ApplyEvent(st, event) ==
  IF ~WellFormed(event) THEN st
  ELSE ApplyNamed(st, event.v[1].v, event.v[2].v)

RECURSIVE ApplyEvents(_, _)
ApplyEvents(st, events) ==
  IF events = <<>> THEN st
  ELSE ApplyEvents([ApplyEvent(st, Head(events)) EXCEPT !.done = @ + 1], Tail(events))

\* applyRedraw(renderersByPtyId, params): the Renderers after it, the value it
\* returns (shouldFlush) and the number of events it went through (done).
ApplyRedraw(renderers, params) ==
  IF params.t # "arr" THEN [renderers |-> renderers, shouldFlush |-> FALSE, done |-> 0]
  ELSE ApplyEvents([renderers |-> renderers, shouldFlush |-> FALSE, done |-> 0], params.v)

\* ensureRenderer(ptyId, rows, cols)
EnsureRenderer(renderers, ptyId, rows, cols) ==
  IF ptyId \in DOMAIN renderers
    THEN [renderers EXCEPT ![ptyId] = Resize(@, rows, cols)]
    ELSE MapSet(renderers, ptyId, NewRenderer(rows, cols))

\* getFocusedPtyId
GetFocusedPtyId(state) ==
  LET tab == GetActiveTab(state)
  IN  IF tab = NullNode THEN Null
      ELSE IF FindPaneInTree(tab.root, tab.focusedPaneId) = NullNode THEN Null
      ELSE FindPaneInTree(tab.root, tab.focusedPaneId).ptyId

\* The socket the App's RpcClient reads from is open.
AppOnline ==
  /\ app.rpc # Null
  /\ sockets[app.rpc].state = "open"

\* What a step of the App leaves alone.
AppFrame ==
  UNCHANGED <<now, rpcVars, dataVars, tabCounter, layoutOp, connVars, keyVars, treeCall>>

\* onMount: the continuation of conn.connect(): the App keeps the RpcClient
\* and registers its "redraw" handler on it.
AppConnected ==
  /\ app.rpc = Null
  /\ \E i \in DOMAIN callerSignals : callerSignals[i].kind = "resolved"
  /\ LET signal == callerSignals[CHOOSE i \in DOMAIN callerSignals :
                                   callerSignals[i].kind = "resolved"]
     IN  app' = [app EXCEPT !.rpc = signal.socket, !.handlers = {"redraw"}]
  /\ viewEvent' = ViewEvent("connected", Null, <<>>)
  /\ UNCHANGED <<renderersByPtyId, styleSeen, layoutState, paneCounter>>
  /\ AppFrame

\* The style entries a list of events carries, the last one for an id last.
RECURSIVE StylesSent(_, _, _)
StylesSent(seen, events, socket) ==
  IF events = <<>> THEN seen
  ELSE LET event == Head(events)
       IN  StylesSent(IF /\ WellFormed(event)
                         /\ event.v[1].v = "style"
                         /\ Arg(event.v[2].v, 0).t = "int"
                         /\ Arg(event.v[2].v, 1).t = "map"
                        THEN MapSet(seen, Arg(event.v[2].v, 0).v,
                                    [attrs |-> {<<k, Arg(event.v[2].v, 1).v[k].v>> :
                                                  k \in DOMAIN Arg(event.v[2].v, 1).v},
                                     socket |-> socket])
                        ELSE seen,
                      Tail(events), socket)

\* A "redraw" notification arrives on the App's RpcClient: handleNotification
\* looks the method up and runs the handler registered in onMount, which
\* applies the events and then asks for a repaint if applyRedraw said so.
Redraw(params) ==
  /\ AppOnline
  /\ "redraw" \in app.handlers
  /\ LET r == ApplyRedraw(renderersByPtyId, params)
     IN  /\ renderersByPtyId' = r.renderers
         /\ viewEvent' = [ViewEvent("redraw", Null, <<params>>) EXCEPT
                            !.requested = r.shouldFlush,
                            !.applied = r.done,
                            !.events = IF params.t = "arr" THEN Len(params.v) ELSE 0]
  /\ styleSeen' = IF params.t = "arr" THEN StylesSent(styleSeen, params.v, app.rpc)
                  ELSE styleSeen
  /\ UNCHANGED <<app, layoutState, paneCounter>>
  /\ AppFrame

\* A "pty_closed" notification arrives on the App's RpcClient:
\* handleNotification finds no handler for the method.
PtyClosed(ptyId) ==
  /\ AppOnline
  /\ HandleNotification([rpc |-> [notificationHandlers |-> app.handlers], calls |-> <<>>],
                        "pty_closed", VArr(<<VInt(ptyId)>>)).calls = <<>>
  /\ viewEvent' = ViewEvent("pty_closed", ptyId, <<>>)
  /\ UNCHANGED <<renderersByPtyId, app, styleSeen, layoutState, paneCounter>>
  /\ AppFrame

\* attachFromPicker(ptyId) up to the first await of attachPty: initLayout()
\* returns the state the layout starts from, the PTY is assigned to its pane
\* and its Renderer is created.  The size comes from the terminal's
\* dimensions through getInnerRect.
AttachFromPicker(ptyId, rows, cols) ==
  /\ app.rpc # Null
  /\ app.mode = "picker"
  /\ layoutState' = AssignPtyToFocused(layoutState, ptyId)
  /\ app' = [app EXCEPT !.mode = "terminal"]
  /\ renderersByPtyId' = EnsureRenderer(renderersByPtyId, ptyId, rows, cols)
  /\ viewEvent' = ViewEvent("attach", ptyId, <<rows, cols>>)
  /\ UNCHANGED <<styleSeen, paneCounter>>
  /\ AppFrame

\* handleTerminalAction({type: "split"}): splitFocused, and
\* spawnAndAttachFocused(next) up to its spawn_pty request.
ActionSplit(direction) ==
  /\ app.rpc # Null
  /\ app.mode = "terminal"
  /\ app.spawning = NullNode
  /\ LET r == SplitFocused(layoutState, direction, paneCounter)
     IN  /\ r.counter <= MaxPaneId
         /\ layoutState' = r.state
         /\ paneCounter' = r.counter
         /\ app' = [app EXCEPT !.spawning =
                      IF GetFocusedPtyId(r.state) = Null THEN r.state ELSE NullNode]
  /\ viewEvent' = ViewEvent("split", Null, <<>>)
  /\ UNCHANGED <<renderersByPtyId, styleSeen>>
  /\ AppFrame

\* spawnAndAttachFocused after the response to spawn_pty: the PTY is assigned
\* to the focused pane of the state it was called with and attachPty creates
\* its Renderer; when attach_pty and resize_pty have been answered the caller
\* stores that state.  The three responses are taken together.
SpawnResolves(ptyId, rows, cols) ==
  /\ AppOnline
  /\ app.spawning # NullNode
  /\ layoutState' = AssignPtyToFocused(app.spawning, ptyId)
  /\ renderersByPtyId' = EnsureRenderer(renderersByPtyId, ptyId, rows, cols)
  /\ app' = [app EXCEPT !.spawning = NullNode]
  /\ viewEvent' = ViewEvent("spawn", ptyId, <<rows, cols>>)
  /\ UNCHANGED <<styleSeen, paneCounter>>
  /\ AppFrame

\* xtermIndexToRgb(idx), as colorFromXtermIndex calls it
CallXtermIndexToRgb(idx) ==
  /\ viewEvent' = ViewEvent("xtermIndexToRgb", Null, <<idx, XtermIndexToRgb(idx)>>)
  /\ UNCHANGED <<renderersByPtyId, app, styleSeen, treeCall>>
  /\ UNCHANGED <<now, rpcVars, dataVars, layoutVars, connVars, keyVars>>

\* C32: a palette index in 0..15 resolves to its entry of the ANSI table, one
\* in 16..231 to the cube levels of the three base-6 digits of index - 16, one
\* in 232..255 to the gray 8 + (index - 232) x 10; every channel is in 0..255
\* and index 21 is (0, 0, 255).
C32_PaletteResolution ==
  (viewEvent.kind = "xtermIndexToRgb" /\ viewEvent.args[1] \in 0..255)
    => LET i == viewEvent.args[1]
           rgb == viewEvent.args[2]
           levels == <<0, 95, 135, 175, 215, 255>>
           n == i - 16
           gray == 8 + (i - 232) * 10
       IN  /\ i \in 0..15 => rgb = Rgb(basic[i + 1][1], basic[i + 1][2], basic[i + 1][3])
           /\ i \in 16..231 => rgb = Rgb(levels[(n \div 36) + 1],
                                         levels[((n \div 6) % 6) + 1],
                                         levels[(n % 6) + 1])
           /\ i \in 232..255 => rgb = Rgb(gray, gray, gray)
           /\ {rgb.r, rgb.g, rgb.b} \subseteq 0..255
           /\ i = 21 => rgb = Rgb(0, 0, 255)

\* Index 21 has been resolved, to pure blue.
C32_Witness ==
  /\ viewEvent.kind = "xtermIndexToRgb"
  /\ viewEvent.args = <<21, Rgb(0, 0, 255)>>

\* A flush event of the redraw vocabulary: ["flush", [...]].
FlushEvent(event) ==
  /\ event.t = "arr"
  /\ Len(event.v) = 2
  /\ event.v[1].t = "str"
  /\ event.v[1].v = "flush"
  /\ event.v[2].t = "arr"

ContainsFlush(params) ==
  /\ params.t = "arr"
  /\ \E i \in 1..Len(params.v) : FlushEvent(params.v[i])

\* C29: the handler of a redraw notification asks for a repaint if and only if
\* the event list contains a flush event, and it asks once every event of the
\* notification has been gone through.
C29_RepaintOnFlushOnly ==
  viewEvent.kind = "redraw"
    => /\ viewEvent.requested <=> ContainsFlush(viewEvent.args[1])
       /\ viewEvent.requested => viewEvent.applied = viewEvent.events

\* A notification whose flush comes before a style event has been handled: the
\* repaint was requested and the Renderer of PTY 1 has the style entry.
C29_Witness ==
  /\ viewEvent.kind = "redraw"
  /\ viewEvent.requested
  /\ viewEvent.events = 2
  /\ FlushEvent(viewEvent.args[1].v[1])
  /\ ~FlushEvent(viewEvent.args[1].v[2])
  /\ 1 \in DOMAIN renderersByPtyId
  /\ 1 \in DOMAIN renderersByPtyId[1].styles

\* An event addressed to a PTY that has no Renderer.
Orphan(event, renderers) ==
  /\ WellFormed(event)
  /\ event.v[1].v \notin {"flush", "style"}
  /\ ToNumber(Arg(event.v[2].v, 0)) # Null
  /\ ToNumber(Arg(event.v[2].v, 0)) \notin DOMAIN renderers

WithoutOrphans(events, renderers) ==
  SelectSeq(events, LAMBDA e : ~Orphan(e, renderers))

\* C31: an event whose PTY has no Renderer is skipped: the handler goes through
\* every event of the notification, and the Renderers and the repaint request
\* after it are those of the same notification without such events.
C31_OrphanEventSkipped ==
  [][viewEvent'.kind = "redraw" /\ Redraw(viewEvent'.args[1])
       /\ viewEvent'.args[1].t = "arr"
     => LET events == viewEvent'.args[1].v
            r == ApplyRedraw(renderersByPtyId,
                             VArr(WithoutOrphans(events, renderersByPtyId)))
        IN  /\ viewEvent'.applied = Len(events)
            /\ renderersByPtyId' = r.renderers
            /\ viewEvent'.requested = r.shouldFlush]_vars

\* A notification of a write for PTY 1, which has no Renderer, followed by a
\* style event has been handled: the Renderer of PTY 2 has the style entry and
\* its grid is as it was created.
C31_Witness ==
  /\ viewEvent.kind = "redraw"
  /\ viewEvent.events = 2
  /\ viewEvent.applied = 2
  /\ 1 \notin DOMAIN renderersByPtyId
  /\ 2 \in DOMAIN renderersByPtyId
  /\ Orphan(viewEvent.args[1].v[1], renderersByPtyId)
  /\ viewEvent.args[1].v[2] = VArr(<<VStr("style"), VArr(<<VInt(1), VMap([bold |-> VBool(TRUE)])>>)>>)
  /\ 1 \in DOMAIN renderersByPtyId[2].styles
  /\ renderersByPtyId[2].grid = NewRenderer(1, 1).grid

\* C27: a style id the current connection has sent attributes for resolves to
\* those attributes in the Renderer of every attached PTY, whenever the
\* Renderer was created.
C27_StyleReachesEveryEngine ==
  \A id \in DOMAIN styleSeen :
    styleSeen[id].socket = conn.rpc
      => \A ptyId \in DOMAIN renderersByPtyId :
           ResolveStyle(renderersByPtyId[ptyId], id) = styleSeen[id].attrs

\* C28: while the connection is established, every style entry a Renderer can
\* resolve was received on this connection.
C28_StylesResetOnReconnect ==
  conn.isConnected
    => \A ptyId \in DOMAIN renderersByPtyId :
         \A id \in DOMAIN renderersByPtyId[ptyId].styles :
           id \in DOMAIN styleSeen /\ styleSeen[id].socket = conn.rpc

\* The PTY of every pane of every tab.
PanePtys(state) ==
  LET panes == UNION {{FindPaneInTree(state.tabs[i].root, id) :
                         id \in PaneIdSet(state.tabs[i].root)} :
                      i \in 1..Len(state.tabs)}
  IN  [id \in {pane.id : pane \in panes} |->
         (CHOOSE pane \in panes : pane.id = id).ptyId]

\* handleTerminalAction({type: "close_pane"})
ActionClosePane ==
  /\ app.rpc # Null
  /\ app.mode = "terminal"
  /\ layoutState' = CloseFocused(layoutState)
  /\ renderersByPtyId' =
       IF GetFocusedPtyId(layoutState) # Null
         THEN Without(renderersByPtyId, GetFocusedPtyId(layoutState))
         ELSE renderersByPtyId
  /\ viewEvent' = ViewEvent("close_pane", GetFocusedPtyId(layoutState), <<>>)
  /\ UNCHANGED <<app, styleSeen, paneCounter>>
  /\ AppFrame

\* handleTerminalAction({type: "focus", direction})
ActionFocus(direction) ==
  /\ app.rpc # Null
  /\ app.mode = "terminal"
  /\ layoutState' = FocusNext(layoutState, direction)
  /\ viewEvent' = ViewEvent("focus", Null, <<>>)
  /\ UNCHANGED <<renderersByPtyId, app, styleSeen, paneCounter>>
  /\ AppFrame

\* The layout with the PTY on the pane of this id, wherever the pane is.
WithPanePty(state, paneId, ptyId) ==
  [state EXCEPT !.tabs = [i \in 1..Len(state.tabs) |->
     [state.tabs[i] EXCEPT !.root = SetPtyId(@, paneId, ptyId).node]]]

\* C34: when a spawn round trip resolves, the layout is the current layout with
\* the PTY added to the pane it was spawned for; changes made to the layout
\* while the round trip was outstanding are kept.
C34_SpawnKeepsLayoutChanges ==
  [][viewEvent'.kind = "spawn"
       /\ SpawnResolves(viewEvent'.pty, viewEvent'.args[1], viewEvent'.args[2])
     => layoutState' = WithPanePty(layoutState,
                                   GetActiveTab(app.spawning).focusedPaneId,
                                   viewEvent'.pty)]_vars

\* C38: every pane that has a PTY has a Renderer registered for that PTY.
C38_PanePtyHasRenderer ==
  \A paneId \in DOMAIN PanePtys(layoutState) :
    PanePtys(layoutState)[paneId] # Null
      => PanePtys(layoutState)[paneId] \in DOMAIN renderersByPtyId

\* C30: once pty_closed(ptyId) has been received, the pane bound to that PTY
\* has no PTY and the PTY has no Renderer; the other panes and Renderers are
\* as they were.
C30_PtyClosedDiscards ==
  [][viewEvent'.kind = "pty_closed"
       => LET ptyId == viewEvent'.pty
              before == PanePtys(layoutState)
          IN  /\ ptyId \notin DOMAIN renderersByPtyId'
              /\ \A other \in (DOMAIN renderersByPtyId) \ {ptyId} :
                   /\ other \in DOMAIN renderersByPtyId'
                   /\ renderersByPtyId'[other] = renderersByPtyId[other]
              /\ PanePtys(layoutState') =
                   [id \in DOMAIN before |->
                      IF before[id] = ptyId THEN Null ELSE before[id]]]_vars

-----------------------------------------------------------------------------
(* Clock and specifications *)

Deadlines ==
  {timers[i] : i \in DOMAIN timers}
    \cup {connTimers[i].deadline : i \in DOMAIN connTimers}
    \cup {keyTimers[h] : h \in DOMAIN keyTimers}

\* Time passes, up to the next deadline of an armed timer.
TickBy(step, limit) ==
  /\ \A d \in Deadlines : d > now
  /\ now' = Min({now + step} \cup Deadlines)
  /\ now' <= limit
  /\ UNCHANGED <<rpcVars, dataVars, layoutVars, connVars, keyVars, viewVars>>

Tick == TickBy(TickStep, MaxTime)

InitAll ==
  /\ now = 0
  /\ InitRpc
  /\ InitData
  /\ InitLayoutVars
  /\ InitConn
  /\ InitKeys
  /\ InitView

NextRpc ==
  \/ \E writeOk \in BOOLEAN : Request(writeOk)
  \/ \E message \in ResponsePool : Receive(message)
  \/ \E msgid \in 1..MaxRequests : Timeout(msgid)
  \/ Tick

SpecRpc == InitAll /\ [][NextRpc]_vars

NextLayout ==
  \/ \E direction \in SplitDirections : DoSplitFocused(direction)
  \/ DoCloseFocused
  \/ \E direction \in FocusDirections : DoFocusNext(direction)
  \/ \E paneId \in 1..(MaxPaneId + 1) : DoMoveFocusToPane(paneId)
  \/ DoAddTab
  \/ \E tabId \in 1..(MaxTabId + 1) : DoCloseTab(tabId)
  \/ \E tabId \in 1..(MaxTabId + 1) : DoSetActiveTab(tabId)
  \/ \E ptyId \in 1..MaxPtyId : DoAssignPtyToFocused(ptyId)

SpecLayout == InitAll /\ [][NextLayout]_vars

\* Only splitFocused and closeFocused, from the single pane of initLayout().
NextSplitClose ==
  \/ \E direction \in SplitDirections : DoSplitFocusedUpTo(direction, MaxSplitPaneId)
  \/ DoCloseFocused

SpecSplitClose == InitAll /\ [][NextSplitClose]_vars

NextConn ==
  \/ Connect
  \/ SetReconnectCallback
  \/ \E s \in 1..MaxSockets : ConnectSucceeds(s)
  \/ \E s \in 1..MaxSockets : ConnectFails(s)
  \/ \E s \in 1..MaxSockets : SocketCloses(s)
  \/ \E s \in 1..MaxSockets : SocketErrors(s)
  \/ \E i \in 1..MaxSockets : ReconnectTimerFires(i)
  \/ NoConnectPending /\ TickBy(TickStep, MaxConnTime)

NextData ==
  \/ \E method \in {<<114>>} : On(method)
  \/ \E bytes \in WirePool : ServerSends(bytes)
  \/ \E n \in 1..MaxWireBytes : Deliver(n)

SpecData == InitAll /\ [][NextData]_vars

SpecConn == InitAll /\ [][NextConn]_vars

NextKeys ==
  \/ \E event \in KeyEvents : KeyPress(event)
  \/ \E h \in 1..2 : PrefixTimeout(h)
  \/ TickBy(KeyTickStep, MaxKeyTime)

SpecKeys == InitAll /\ [][NextKeys]_vars

CursorInputs == {<<0, 1, TRUE>>}

\* Direct calls of the grid methods of one Renderer.
NextRenderer ==
  \/ \E rows \in 1..MaxRows, cols \in 1..MaxCols : CallNewRenderer(1, rows, cols)
  \/ \E row \in 0..MaxRows, col \in 0..MaxCols, cells \in CellLists :
       CallWrite(1, row, col, cells)
  \/ \E rows \in 1..MaxRows, cols \in 1..MaxCols : CallResize(1, rows, cols)
  \/ CallClearDirty(1)

SpecRenderer == InitAll /\ [][NextRenderer]_vars

\* Direct calls of every method of one Renderer, with one wide cell to write.
NextRendererCalls ==
  \/ \E rows \in 1..MaxRows, cols \in 1..MaxCols : CallNewRenderer(1, rows, cols)
  \/ \E row \in 0..MaxRows, col \in 0..MaxCols : CallWrite(1, row, col, <<WideCell>>)
  \/ \E rows \in 1..MaxRows, cols \in 1..MaxCols : CallResize(1, rows, cols)
  \/ \E id \in StyleIds, attrs \in StyleAttrs : CallStyle(1, id, attrs)
  \/ \E p \in CursorInputs : CallCursorPos(1, p[1], p[2], p[3])
  \/ CallCursorShape(1, 1)
  \/ CallSelection(1, 0, 0, 0, 1)
  \/ CallTitle(1, "t")
  \/ \E opts \in PaintOpts : CallRenderToBuffer(1, opts)
  \/ CallClearDirty(1)

SpecRendererCalls == InitAll /\ [][NextRendererCalls]_vars

\* Layout operations and direct calls of the tree functions.
NextTreeCalls ==
  \/ \E direction \in SplitDirections : DoSplitFocused(direction)
  \/ \E paneId \in 1..(MaxPaneId + 1) : DoMoveFocusToPane(paneId)
  \/ DoAddTab
  \/ \E tabId \in 1..(MaxTabId + 1) : DoCloseTab(tabId)
  \/ \E tabId \in 1..(MaxTabId + 1) : DoSetActiveTab(tabId)
  \/ \E paneId \in 1..(MaxPaneId + 1), direction \in SplitDirections :
       CallSplitPane(paneId, direction)
  \/ \E paneId \in 1..(MaxPaneId + 1) : CallClosePane(paneId)
  \/ \E paneId \in 1..(MaxPaneId + 1), ptyId \in 1..MaxPtyId : CallSetPtyId(paneId, ptyId)

SpecTreeCalls == InitAll /\ [][NextTreeCalls]_vars

ContainerRects ==
  {Rect(0, 0, width, height) : width \in 1..MaxRectSize, height \in 1..MaxRectSize}

\* Splits, focus moves and closes in one tab, and the rectangle computation.
NextRects ==
  \/ \E direction \in SplitDirections : DoSplitFocused(direction)
  \/ DoFocusNext("right")
  \/ DoCloseFocused
  \/ \E containerRect \in ContainerRects : CallGetAllPaneRects(containerRect)

SpecRects == InitAll /\ [][NextRects]_vars

StyleEvent(id, attrs) == VArr(<<VStr("style"), VArr(<<VInt(id), VMap(attrs)>>)>>)

\* Events of the redraw vocabulary, and three that are not of its shape.
RedrawEvents ==
  { VArr(<<VStr("flush"), VArr(<<>>)>>),
    StyleEvent(1, [bold |-> VBool(TRUE)]),
    StyleEvent(1, [reverse |-> VBool(TRUE)]),
    VArr(<<VStr("write"), VArr(<<VInt(1), VInt(0), VInt(0),
                                 VArr(<<VArr(<<VStr("A"), VInt(1)>>)>>)>>)>>),
    VArr(<<VStr("flush")>>),
    VArr(<<VStr("flush"), VNil>>) }

RedrawParams ==
  {VNil} \cup {VArr(<<>>)} \cup {VArr(<<e>>) : e \in RedrawEvents}
    \cup {VArr(<<e1, e2>>) : e1, e2 \in RedrawEvents}

\* The App on a connection that is lost and re-established.
NextView ==
  \/ Connect
  \/ \E s \in 1..MaxSockets : ConnectSucceeds(s)
  \/ \E s \in 1..MaxSockets : SocketCloses(s)
  \/ \E i \in 1..MaxSockets : ReconnectTimerFires(i)
  \/ NoConnectPending /\ TickBy(TickStep, MaxConnTime)
  \/ AppConnected
  \/ \E params \in RedrawParams : Redraw(params)
  \/ \E ptyId \in ViewPtys : PtyClosed(ptyId)
  \/ \E ptyId \in ViewPtys : AttachFromPicker(ptyId, 1, 1)
  \/ \E direction \in SplitDirections : ActionSplit(direction)
  \/ \E ptyId \in ViewPtys : SpawnResolves(ptyId, 1, 1)

SpecView == InitAll /\ [][NextView]_vars

\* Colour resolution for every palette index and the two just outside.
NextPalette == \E idx \in (0 - 1)..(MaxPaletteIndex + 1) : CallXtermIndexToRgb(idx)

SpecPalette == InitAll /\ [][NextPalette]_vars

\* The connection manager with a caller that may close the connection.
NextClose ==
  \/ Connect
  \/ \E s \in 1..MaxSockets : ConnectSucceeds(s)
  \/ \E s \in 1..MaxSockets : ConnectFails(s)
  \/ \E s \in 1..MaxSockets : SocketCloses(s)
  \/ \E i \in 1..MaxSockets : ReconnectTimerFires(i)
  \/ NoConnectPending /\ TickBy(TickStep, MaxConnTime)
  \/ Close
  \/ \E s \in 1..MaxSockets : DestroyedSocketCloses(s)

SpecClose == InitAll /\ [][NextClose]_vars

\* The App in terminal mode: panes are split, focused and closed while a
\* spawn may be outstanding.  The server hands out PTY ids that are not in use.
NextPanes ==
  \/ Connect
  \/ \E s \in 1..MaxSockets : ConnectSucceeds(s)
  \/ AppConnected
  \/ \E ptyId \in ViewPtys : AttachFromPicker(ptyId, 1, 1)
  \/ \E direction \in SplitDirections : ActionSplit(direction)
  \/ \E ptyId \in ViewPtys :
       /\ ptyId \notin DOMAIN renderersByPtyId
       /\ SpawnResolves(ptyId, 1, 1)
  \/ ActionClosePane
  \/ \E direction \in FocusDirections : ActionFocus(direction)

SpecPanes == InitAll /\ [][NextPanes]_vars

\* Requests on a client whose connection is lost and re-established.  A
\* request is issued while its timeout still falls within the clock's range.
NextLive ==
  \/ Connect
  \/ \E s \in 1..MaxSockets : ConnectSucceeds(s)
  \/ \E s \in 1..MaxSockets : SocketCloses(s)
  \/ \E i \in 1..MaxSockets : ReconnectTimerFires(i)
  \/ \E writeOk \in BOOLEAN :
       /\ ClientExists
       /\ rpc.msgidCounter <= MaxLiveRequests
       /\ now + REQUEST_TIMEOUT_MS <= MaxTime
       /\ Request(writeOk)
  \/ \E message \in ResponsePool : ClientOnline /\ Receive(message)
  \/ \E msgid \in 1..MaxRequests : Timeout(msgid)
  \/ NoConnectPending /\ Tick

\* Timers expire and their callbacks run; a connection attempt on the local
\* socket gets its outcome.
SpecLive ==
  /\ InitAll
  /\ [][NextLive]_vars
  /\ WF_vars(NoConnectPending /\ Tick)
  /\ WF_vars(\E msgid \in 1..MaxRequests : Timeout(msgid))
  /\ WF_vars(\E i \in 1..MaxSockets : ReconnectTimerFires(i))
  /\ WF_vars(\E s \in 1..MaxSockets : ConnectSucceeds(s))

====
